---- MODULE Spec2Model ----
(***************************************************************************)
(* A model of the JSON-file-backed user / session / chat store             *)
(* (backend/user_database.py, class UserDatabase) and of the request       *)
(* handlers of backend/main.py that call into it.                          *)
(*                                                                         *)
(* Python values are modelled as follows.                                  *)
(*   - a str is a sequence of one-character strings ("" is <<>>);          *)
(*     e-mail addresses and chat titles are never taken apart by the code  *)
(*     and are one-element sequences holding the whole text; a username,   *)
(*     which is only ever a dict key, is a TLA+ string;                    *)
(*   - None is the one-element sequence <<"None">>, which is no str;       *)
(*   - a dict is a function whose DOMAIN is its key set; dict insertion    *)
(*     order, which the code iterates in, is kept beside it as a sequence; *)
(*   - datetime.now() is the variable now, in hours; an ISO timestamp is   *)
(*     the two-digit decimal string of the hour;                           *)
(*   - the values drawn from the secrets module are fresh: the n-th draw   *)
(*     of a kind is derived from the counter n.                            *)
(***************************************************************************)
EXTENDS Integers, Sequences, FiniteSets, TLC

VARIABLES
    users,      \* UserDatabase.users: username -> user record (a dict)
    keys,       \* insertion order of the keys of users
    file,       \* the persisted document users.json
    now,        \* the wall clock read by datetime.now(), in hours
    nextToken,  \* number of session tokens drawn so far, plus one
    nextChat,   \* number of chat ids drawn so far, plus one
    hcheck      \* inputs and results of a scripted caller (HashSpec, ScenarioSpec)

vars == <<users, keys, file, now, nextToken, nextChat, hcheck>>

----------------------------------------------------------------------------
(* Bounds of the model *)

MaxTime == 24       \* the clock stays within 0 .. MaxTime hours
MaxTokens == 2      \* session tokens drawn in one behaviour
MaxChats == 2       \* chat ids drawn in one behaviour
MaxMsgs == 2        \* update_chat_last_message calls per chat
MaxPwLen == 2       \* length of the passwords of HashSpec
MaxSeed == 2        \* salts drawn in HashSpec are numbered 0 .. MaxSeed
SaltLen == 2        \* hex characters of a salt

(* Program constants *)

SESSION_HOURS == 24

TickHours == SESSION_HOURS

----------------------------------------------------------------------------
(* Python values *)

None == <<"None">>

EmptyStr == <<>>

EmptyDict == <<>>

Get(d, k, default) == IF k \in DOMAIN d THEN d[k] ELSE default

Put(d, k, v) == [x \in DOMAIN d \cup {k} |-> IF x = k THEN v ELSE d[x]]

Pop(d, k) == [x \in DOMAIN d \ {k} |-> d[x]]

HexChars == <<"0", "1", "2", "3", "4", "5", "6", "7",
              "8", "9", "a", "b", "c", "d", "e", "f">>

DecChars == SubSeq(HexChars, 1, 10)

Range(s) == {s[i] : i \in DOMAIN s}

IndexOf(s, c) == CHOOSE i \in DOMAIN s : s[i] = c

RECURSIVE ToHex(_, _)
ToHex(n, width) ==
    IF width = 0 THEN <<>>
    ELSE Append(ToHex(n \div 16, width - 1), HexChars[(n % 16) + 1])

(* datetime.isoformat() and datetime.fromisoformat() *)

isoformat(t) == <<DecChars[((t \div 10) % 10) + 1], DecChars[(t % 10) + 1]>>

IsoValid(s) ==
    /\ s # None
    /\ Len(s) = Len(isoformat(0))
    /\ \A i \in DOMAIN s : s[i] \in Range(DecChars)

fromisoformat(s) ==
    (IndexOf(DecChars, s[1]) - 1) * 10 + (IndexOf(DecChars, s[2]) - 1)

----------------------------------------------------------------------------
(* Credential functions: _hash_password, _verify_password *)

\* the characters a password or a salt is made of
Alphabet == HexChars \o <<":">>

DigestLen == MaxPwLen + SaltLen + 1

\* hashlib.sha256(...).hexdigest(): a collision-free digest of the input,
\* written in hex.  The digest is the input's number in the bijective
\* base-Len(Alphabet) numeration, so distinct inputs have distinct digests.
RECURSIVE StrCode(_)
StrCode(s) ==
    IF s = <<>> THEN 0
    ELSE StrCode(SubSeq(s, 1, Len(s) - 1)) * Len(Alphabet)
             + IndexOf(Alphabet, s[Len(s)])

sha256_hexdigest(s) == ToHex(StrCode(s), DigestLen)

\* secrets.token_hex: the hex string of the drawn value
token_hex(seed) == ToHex(seed, SaltLen)

\* str.split(':')
RECURSIVE split_colon(_)
split_colon(s) ==
    IF \A i \in DOMAIN s : s[i] # ":" THEN <<s>>
    ELSE LET i == CHOOSE j \in DOMAIN s :
                      s[j] = ":" /\ \A k \in 1 .. (j - 1) : s[k] # ":"
         IN  <<SubSeq(s, 1, i - 1)>> \o split_colon(SubSeq(s, i + 1, Len(s)))

_hash_password(password, seed) ==
    LET salt == token_hex(seed)
        password_hash == sha256_hexdigest(password \o salt)
    IN  salt \o <<":">> \o password_hash

\* a slip: the salt is put before the password
_verify_password_SaltFirst(password, stored_hash) ==
    IF stored_hash = None THEN FALSE
    ELSE LET parts == split_colon(stored_hash)
         IN  IF Len(parts) # 2 THEN FALSE
             ELSE sha256_hexdigest(parts[1] \o password) = parts[2]

_verify_password(password, stored_hash) ==
    IF stored_hash = None THEN FALSE
    ELSE LET parts == split_colon(stored_hash)
         IN  IF Len(parts) # 2 THEN FALSE
             ELSE sha256_hexdigest(password \o parts[1]) = parts[2]

\* secrets.token_urlsafe: the n-th draw of a kind
token_urlsafe(kind, n) == <<kind>> \o ToHex(n, 1)

----------------------------------------------------------------------------
(* The store: the fields of the UserDatabase object and the file *)

Store == [users |-> users, keys |-> keys, file |-> file]

\* a slip: nothing is written
_save_users_Skip(S) == S

\* _save_users: the whole of self.users replaces the file's content
_save_users(S) == [S EXCEPT !.file = [exists |-> TRUE, content |-> S.users]]

Reply(S, ret) == [store |-> S, ret |-> ret]

\* a slip: the username is looked up among the user ids
UsernameExists_ById(S, username) ==
    \E k \in DOMAIN S.users : S.users[k]["user_id"] = <<username>>

\* username in self.users
UsernameExists(S, username) == username \in DOMAIN S.users

\* a slip: the scan returns after the first record
EmailExists_FirstOnly(S, email) ==
    \E i \in DOMAIN S.keys : i = 1 /\ Get(S.users[S.keys[i]], "email", None) = email

\* the scan of self.users.values() for the e-mail address
EmailExists(S, email) ==
    \E i \in DOMAIN S.keys : Get(S.users[S.keys[i]], "email", None) = email

\* a slip: the e-mail addresses of the store are not scanned
register_user_NoEmailScan(S, username, email, password, t) ==
    IF UsernameExists(S, username)
    THEN Reply(S, [success |-> FALSE, message |-> "Username already exists"])
    ELSE LET n == Len(S.keys) + 1
             user_id == token_urlsafe("U", n)
             user_data == [user_id |-> user_id,
                           username |-> username,
                           email |-> email,
                           password_hash |-> _hash_password(password, n),
                           created_at |-> isoformat(t),
                           last_login |-> None,
                           chats |-> EmptyDict,
                           is_active |-> TRUE]
             S1 == [S EXCEPT !.users = Put(S.users, username, user_data),
                             !.keys = Append(S.keys, username)]
         IN  Reply(_save_users(S1),
                   [success |-> TRUE,
                    message |-> "User registered successfully",
                    user_id |-> user_id])

register_user(S, username, email, password, t) ==
    IF UsernameExists(S, username)
    THEN Reply(S, [success |-> FALSE, message |-> "Username already exists"])
    ELSE IF EmailExists(S, email)
    THEN Reply(S, [success |-> FALSE, message |-> "Email already exists"])
    ELSE LET n == Len(S.keys) + 1
             user_id == token_urlsafe("U", n)
             user_data == [user_id |-> user_id,
                           username |-> username,
                           email |-> email,
                           password_hash |-> _hash_password(password, n),
                           created_at |-> isoformat(t),
                           last_login |-> None,
                           chats |-> EmptyDict,
                           is_active |-> TRUE]
             S1 == [S EXCEPT !.users = Put(S.users, username, user_data),
                             !.keys = Append(S.keys, username)]
         IN  Reply(_save_users(S1),
                   [success |-> TRUE,
                    message |-> "User registered successfully",
                    user_id |-> user_id])

\* a slip: the password is not verified
authenticate_user_NoVerify(S, username, password, t) ==
    IF username \notin DOMAIN S.users
    THEN Reply(S, [success |-> FALSE, message |-> "Invalid username or password"])
    ELSE LET user_data == S.users[username]
             ud1 == Put(user_data, "last_login", isoformat(t))
             S1 == [S EXCEPT !.users = Put(S.users, username, ud1)]
         IN  Reply(_save_users(S1),
                   [success |-> TRUE,
                    message |-> "Login successful",
                    user_data |-> [user_id |-> ud1["user_id"],
                                   username |-> ud1["username"],
                                   email |-> ud1["email"],
                                   chats |-> Get(ud1, "chats", EmptyDict)]])

\* a slip: the is_active flag is not looked at
authenticate_user_NoActiveCheck(S, username, password, t) ==
    IF username \notin DOMAIN S.users
    THEN Reply(S, [success |-> FALSE, message |-> "Invalid username or password"])
    ELSE LET user_data == S.users[username] IN
         IF ~_verify_password(password, user_data["password_hash"])
         THEN Reply(S, [success |-> FALSE,
                        message |-> "Invalid username or password"])
         ELSE LET ud1 == Put(user_data, "last_login", isoformat(t))
                  S1 == [S EXCEPT !.users = Put(S.users, username, ud1)]
              IN  Reply(_save_users(S1),
                        [success |-> TRUE,
                         message |-> "Login successful",
                         user_data |-> [user_id |-> ud1["user_id"],
                                        username |-> ud1["username"],
                                        email |-> ud1["email"],
                                        chats |-> Get(ud1, "chats", EmptyDict)]])

authenticate_user(S, username, password, t) ==
    IF username \notin DOMAIN S.users
    THEN Reply(S, [success |-> FALSE, message |-> "Invalid username or password"])
    ELSE LET user_data == S.users[username] IN
         IF ~Get(user_data, "is_active", TRUE)
         THEN Reply(S, [success |-> FALSE, message |-> "Account is deactivated"])
         ELSE IF ~_verify_password(password, user_data["password_hash"])
         THEN Reply(S, [success |-> FALSE,
                        message |-> "Invalid username or password"])
         ELSE LET ud1 == Put(user_data, "last_login", isoformat(t))
                  S1 == [S EXCEPT !.users = Put(S.users, username, ud1)]
              IN  Reply(_save_users(S1),
                        [success |-> TRUE,
                         message |-> "Login successful",
                         user_data |-> [user_id |-> ud1["user_id"],
                                        username |-> ud1["username"],
                                        email |-> ud1["email"],
                                        chats |-> Get(ud1, "chats", EmptyDict)]])

\* a slip: the expiry is the time of the call
WithSession_NoTTL(user_data, session_token, t) ==
    Put(Put(user_data, "session_token", session_token),
        "session_expires", isoformat(t))

\* the record of username with a session stored on it
WithSession(user_data, session_token, t) ==
    Put(Put(user_data, "session_token", session_token),
        "session_expires", isoformat(t + SESSION_HOURS))

\* a slip: a token already on the record is kept
create_user_session_KeepOld(S, username, n, t) ==
    LET session_token == token_urlsafe("T", n) IN
    IF username \in DOMAIN S.users /\ "session_token" \notin DOMAIN S.users[username]
    THEN LET ud1 == WithSession(S.users[username], session_token, t)
             S1 == [S EXCEPT !.users = Put(S.users, username, ud1)]
         IN  Reply(_save_users(S1), session_token)
    ELSE Reply(S, session_token)

create_user_session(S, username, n, t) ==
    LET session_token == token_urlsafe("T", n) IN
    IF username \in DOMAIN S.users
    THEN LET ud1 == WithSession(S.users[username], session_token, t)
             S1 == [S EXCEPT !.users = Put(S.users, username, ud1)]
         IN  Reply(_save_users(S1), session_token)
    ELSE Reply(S, session_token)

\* the record with session_token and session_expires popped
WithoutSession(user_data) == Pop(Pop(user_data, "session_token"), "session_expires")

NoIdentity == [found |-> FALSE]

Identity(username, user_data) ==
    [found |-> TRUE,
     username |-> username,
     user_id |-> user_data["user_id"],
     thread_id |-> Get(user_data, "thread_id", None)]

\* a slip: the expired session is skipped, not removed
ExpireSession_Skip(S, username) == S

\* the expired session is popped from the record and the store is saved
ExpireSession(S, username) ==
    _save_users([S EXCEPT !.users =
                    Put(S.users, username, WithoutSession(S.users[username]))])

\* a slip: the session still counts at the hour it expires
NotExpired_Inclusive(t, expires) == t <= expires

\* datetime.now() < expires
NotExpired(t, expires) == t < expires

\* a slip: a record without a readable expiry counts as a live session
RECURSIVE validate_from_NoExpiryIsValid(_, _, _, _)
validate_from_NoExpiryIsValid(S, i, session_token, t) ==
    IF i > Len(S.keys) THEN Reply(S, NoIdentity)
    ELSE LET username == S.keys[i]
             user_data == S.users[username]
         IN  IF Get(user_data, "session_token", None) # session_token
             THEN validate_from_NoExpiryIsValid(S, i + 1, session_token, t)
             ELSE LET stored == Get(user_data, "session_expires", EmptyStr) IN
                  IF ~IsoValid(stored)
                  THEN Reply(S, Identity(username, user_data))
                  ELSE IF NotExpired(t, fromisoformat(stored))
                  THEN Reply(S, Identity(username, user_data))
                  ELSE validate_from_NoExpiryIsValid(ExpireSession(S, username), i + 1,
                                                     session_token, t)

\* validate_session from the i-th key on: the loop over self.users.items()
RECURSIVE validate_from(_, _, _, _)
validate_from(S, i, session_token, t) ==
    IF i > Len(S.keys) THEN Reply(S, NoIdentity)
    ELSE LET username == S.keys[i]
             user_data == S.users[username]
         IN  IF Get(user_data, "session_token", None) # session_token
             THEN validate_from(S, i + 1, session_token, t)
             ELSE LET stored == Get(user_data, "session_expires", EmptyStr) IN
                  IF ~IsoValid(stored)
                  THEN validate_from(S, i + 1, session_token, t)  \* except: pass
                  ELSE IF NotExpired(t, fromisoformat(stored))
                  THEN Reply(S, Identity(username, user_data))
                  ELSE validate_from(ExpireSession(S, username), i + 1,
                                     session_token, t)

validate_session(S, session_token, t) == validate_from(S, 1, session_token, t)

get_user_by_username(S, username) == Get(S.users, username, None)

\* a slip: the record is deleted, not marked
deactivate_user_Delete(S, username) ==
    IF username \in DOMAIN S.users
    THEN LET S1 == [S EXCEPT !.users = Pop(S.users, username),
                             !.keys = SelectSeq(S.keys, LAMBDA k : k # username)]
         IN  Reply(_save_users(S1), TRUE)
    ELSE Reply(S, FALSE)

\* a slip: deactivating also ends the session
deactivate_user_DropSession(S, username) ==
    IF username \in DOMAIN S.users
    THEN LET ud1 == Put(WithoutSession(S.users[username]), "is_active", FALSE)
             S1 == [S EXCEPT !.users = Put(S.users, username, ud1)]
         IN  Reply(_save_users(S1), TRUE)
    ELSE Reply(S, FALSE)

deactivate_user(S, username) ==
    IF username \in DOMAIN S.users
    THEN LET ud1 == Put(S.users[username], "is_active", FALSE)
             S1 == [S EXCEPT !.users = Put(S.users, username, ud1)]
         IN  Reply(_save_users(S1), TRUE)
    ELSE Reply(S, FALSE)

----------------------------------------------------------------------------
(* Chat registry *)

HasChat(S, username, chat_id) ==
    /\ username \in DOMAIN S.users
    /\ chat_id \in DOMAIN Get(S.users[username], "chats", EmptyDict)

\* self.users[username]["chats"][chat_id] = chat_data
SetChat(S, username, chat_id, chat_data) ==
    LET user_data == S.users[username]
        ud1 == Put(user_data, "chats", Put(user_data["chats"], chat_id, chat_data))
    IN  [S EXCEPT !.users = Put(S.users, username, ud1)]

NewChat(chat_id, chat_title, t) ==
    [chat_id |-> chat_id,
     title |-> chat_title,
     thread_id |-> None,
     created_at |-> isoformat(t),
     last_message_at |-> None,
     message_count |-> 0]

create_user_chat(S, username, chat_title, n, t) ==
    IF username \notin DOMAIN S.users THEN Reply(S, None)
    ELSE LET chat_id == token_urlsafe("C", n)
             S1 == SetChat(S, username, chat_id, NewChat(chat_id, chat_title, t))
         IN  Reply(_save_users(S1), chat_id)

get_user_chats(S, username) ==
    IF username \notin DOMAIN S.users THEN EmptyDict
    ELSE Get(S.users[username], "chats", EmptyDict)

update_chat_thread(S, username, chat_id, thread_id) ==
    IF HasChat(S, username, chat_id)
    THEN LET chat_data == S.users[username]["chats"][chat_id]
             S1 == SetChat(S, username, chat_id, Put(chat_data, "thread_id", thread_id))
         IN  Reply(_save_users(S1), None)
    ELSE Reply(S, None)

\* a slip: the count is set to one, not raised
Touched_CountOne(chat_data, t) ==
    Put(Put(chat_data, "last_message_at", isoformat(t)), "message_count", 1)

\* chat_data with the timestamp set and the count raised
Touched(chat_data, t) ==
    Put(Put(chat_data, "last_message_at", isoformat(t)),
        "message_count", Get(chat_data, "message_count", 0) + 1)

update_chat_last_message(S, username, chat_id, t) ==
    IF HasChat(S, username, chat_id)
    THEN LET chat_data == S.users[username]["chats"][chat_id]
             S1 == SetChat(S, username, chat_id, Touched(chat_data, t))
         IN  Reply(_save_users(S1), None)
    ELSE Reply(S, None)

\* a slip: the chat is deleted from every user that has one with this id
DelChat_Everyone(S, username, chat_id) ==
    [S EXCEPT !.users =
        [u \in DOMAIN S.users |->
            IF chat_id \in DOMAIN Get(S.users[u], "chats", EmptyDict)
            THEN Put(S.users[u], "chats", Pop(S.users[u]["chats"], chat_id))
            ELSE S.users[u]]]

\* del self.users[username]["chats"][chat_id]
DelChat(S, username, chat_id) ==
    LET user_data == S.users[username]
        ud1 == Put(user_data, "chats", Pop(user_data["chats"], chat_id))
    IN  [S EXCEPT !.users = Put(S.users, username, ud1)]

\* a slip: True is returned whether or not the chat was there
delete_user_chat_AlwaysTrue(S, username, chat_id) ==
    IF HasChat(S, username, chat_id)
    THEN Reply(_save_users(DelChat(S, username, chat_id)), TRUE)
    ELSE Reply(S, TRUE)

delete_user_chat(S, username, chat_id) ==
    IF HasChat(S, username, chat_id)
    THEN Reply(_save_users(DelChat(S, username, chat_id)), TRUE)
    ELSE Reply(S, FALSE)

\* a slip: renaming starts the chat's count again
update_chat_title_ResetCount(S, username, chat_id, new_title) ==
    IF HasChat(S, username, chat_id)
    THEN LET chat_data == S.users[username]["chats"][chat_id]
             renamed == Put(Put(chat_data, "title", new_title), "message_count", 0)
         IN  Reply(_save_users(SetChat(S, username, chat_id, renamed)), TRUE)
    ELSE Reply(S, FALSE)

update_chat_title(S, username, chat_id, new_title) ==
    IF HasChat(S, username, chat_id)
    THEN LET chat_data == S.users[username]["chats"][chat_id]
             S1 == SetChat(S, username, chat_id, Put(chat_data, "title", new_title))
         IN  Reply(_save_users(S1), TRUE)
    ELSE Reply(S, FALSE)

----------------------------------------------------------------------------
(* Request handlers of main.py.  A handler's reply carries the store it   *)
(* leaves, its response and the number of session tokens it drew.         *)

Handled(S, response, drawn) == [store |-> S, ret |-> response, drawn |-> drawn]

Unauthorized(detail) == [status |-> 401, detail |-> detail]

\* authorization.replace("Bearer ", ""): the scheme prefix is one element
StripBearer(authorization) == SelectSeq(authorization, LAMBDA c : c # "Bearer ")

get_current_user(S, authorization, t) ==
    IF authorization = None \/ authorization = EmptyStr
    THEN Reply(S, Unauthorized("Authorization header required"))
    ELSE LET r == validate_session(S, StripBearer(authorization), t) IN
         IF ~r.ret.found
         THEN \* the HTTPException raised in the try block is caught by the
              \* handler's own except clause and raised again with this detail
              Reply(r.store, Unauthorized("Invalid session token"))
         ELSE Reply(r.store, [status |-> 200, user |-> r.ret])

handle_register(S, username, email, password, n, t) ==
    LET r == register_user(S, username, email, password, t) IN
    IF r.ret.success
    THEN LET c == create_user_session(r.store, username, n, t)
         IN  Handled(c.store,
                     [status |-> 200,
                      success |-> TRUE,
                      message |-> r.ret.message,
                      user_data |-> [user_id |-> r.ret.user_id,
                                     username |-> username,
                                     email |-> email,
                                     chats |-> None],
                      session_token |-> c.ret],
                     1)
    ELSE Handled(r.store,
                 [status |-> 200, success |-> FALSE, message |-> r.ret.message,
                  user_data |-> None, session_token |-> None],
                 0)

handle_login(S, username, password, n, t) ==
    LET r == authenticate_user(S, username, password, t) IN
    IF r.ret.success
    THEN LET c == create_user_session(r.store, username, n, t)
         IN  Handled(c.store,
                     [status |-> 200,
                      success |-> TRUE,
                      message |-> r.ret.message,
                      user_data |-> r.ret.user_data,
                      session_token |-> c.ret],
                     1)
    ELSE Handled(r.store,
                 [status |-> 200, success |-> FALSE, message |-> r.ret.message,
                  user_data |-> None, session_token |-> None],
                 0)

\* a slip: the session is popped and the store is not saved
clear_session_NoSave(S, username) ==
    [S EXCEPT !.users = Put(S.users, username, WithoutSession(S.users[username]))]

\* logout_user: both session fields are popped and the store is saved
clear_session(S, username) ==
    _save_users([S EXCEPT !.users =
                    Put(S.users, username, WithoutSession(S.users[username]))])

handle_logout(S, authorization, t) ==
    LET a == get_current_user(S, authorization, t) IN
    IF a.ret.status # 200 THEN Handled(a.store, a.ret, 0)
    ELSE LET username == a.ret.user.username
             user_data == get_user_by_username(a.store, username)
             ok == [status |-> 200, success |-> TRUE,
                    message |-> "Logged out successfully"]
         IN  IF username \notin DOMAIN a.store.users \/ DOMAIN user_data = {}
             THEN Handled(a.store, ok, 0)   \* "if user_data:" is false
             ELSE Handled(clear_session(a.store, username), ok, 0)

----------------------------------------------------------------------------
(* Inputs *)

Usernames == {"alice", "bob"}

Emails == {<<"alice@x.com">>, <<"bob@x.com">>}

Passwords == {<<"a", "1">>, <<"1", "a">>}

Password0 == <<"a", "1">>

\* the registrations requested: alice always gives her own address, bob
\* gives his own or alice's
Registrations ==
    {<<"alice", <<"alice@x.com">>>>,
     <<"bob", <<"alice@x.com">>>>,
     <<"bob", <<"bob@x.com">>>>}

Titles == {<<"New Chat">>, <<"My Chat">>}

ThreadIds == {<<"thread_1">>}

\* every session token a behaviour can draw
SessionTokens == {token_urlsafe("T", n) : n \in 1 .. MaxTokens}

\* what a caller may present as a token: a drawn one, or one never drawn
PresentedTokens == SessionTokens \cup {None, EmptyStr, <<"x">>}

AuthHeaders ==
    {None} \cup SessionTokens \cup {<<"Bearer ">> \o k : k \in SessionTokens \cup {<<"x">>}}

ChatIds == {token_urlsafe("C", n) : n \in 1 .. MaxChats}

----------------------------------------------------------------------------
(* State machine.  An action is one call of a store operation or one      *)
(* request; it applies the operator that models the call to the store.    *)

NoFile == [exists |-> FALSE, content |-> EmptyDict]

Idle == [phase |-> "idle"]

Init ==
    /\ users = EmptyDict         \* _load_users: no users.json yet
    /\ keys = <<>>
    /\ file = NoFile
    /\ now = 0
    /\ nextToken = 1
    /\ nextChat = 1
    /\ hcheck = Idle

SessionToken(n) == token_urlsafe("T", n)

Holds(us, username, session_token) ==
    /\ username \in DOMAIN us
    /\ Get(us[username], "session_token", None) = session_token

SetStore(S) ==
    /\ users' = S.users
    /\ keys' = S.keys
    /\ file' = S.file

RegisterUser(username, email, password) ==
    /\ SetStore(register_user(Store, username, email, password, now).store)
    /\ UNCHANGED <<now, nextToken, nextChat, hcheck>>

AuthenticateUser(username, password) ==
    /\ SetStore(authenticate_user(Store, username, password, now).store)
    /\ UNCHANGED <<now, nextToken, nextChat, hcheck>>

CreateUserSession(username) ==
    LET r == create_user_session(Store, username, nextToken, now) IN
    /\ nextToken <= MaxTokens
    /\ SetStore(r.store)
    /\ nextToken' = nextToken + 1
    /\ UNCHANGED <<now, nextChat, hcheck>>

ValidateSession(session_token) ==
    LET r == validate_session(Store, session_token, now) IN
    /\ SetStore(r.store)
    /\ UNCHANGED <<now, nextToken, nextChat, hcheck>>

DeactivateUser(username) ==
    /\ SetStore(deactivate_user(Store, username).store)
    /\ UNCHANGED <<now, nextToken, nextChat, hcheck>>

CreateUserChat(username, chat_title) ==
    /\ username \in DOMAIN users => nextChat <= MaxChats
    /\ SetStore(create_user_chat(Store, username, chat_title, nextChat, now).store)
    /\ nextChat' = IF username \in DOMAIN users THEN nextChat + 1 ELSE nextChat
    /\ UNCHANGED <<now, nextToken, hcheck>>

\* a read: the store is left as it is
GetUserChats(username) ==
    /\ DOMAIN get_user_chats(Store, username) \subseteq ChatIds
    /\ UNCHANGED vars

UpdateChatThread(username, chat_id, thread_id) ==
    /\ SetStore(update_chat_thread(Store, username, chat_id, thread_id).store)
    /\ UNCHANGED <<now, nextToken, nextChat, hcheck>>

UpdateChatLastMessage(username, chat_id) ==
    /\ HasChat(Store, username, chat_id)
          => users[username]["chats"][chat_id]["message_count"] < MaxMsgs
    /\ SetStore(update_chat_last_message(Store, username, chat_id, now).store)
    /\ UNCHANGED <<now, nextToken, nextChat, hcheck>>

DeleteUserChat(username, chat_id) ==
    /\ SetStore(delete_user_chat(Store, username, chat_id).store)
    /\ UNCHANGED <<now, nextToken, nextChat, hcheck>>

UpdateChatTitle(username, chat_id, new_title) ==
    /\ SetStore(update_chat_title(Store, username, chat_id, new_title).store)
    /\ UNCHANGED <<now, nextToken, nextChat, hcheck>>

HandleRegister(username, email, password) ==
    LET r == handle_register(Store, username, email, password, nextToken, now) IN
    /\ nextToken + r.drawn <= MaxTokens + 1
    /\ SetStore(r.store)
    /\ nextToken' = nextToken + r.drawn
    /\ UNCHANGED <<now, nextChat, hcheck>>

HandleLogin(username, password) ==
    LET r == handle_login(Store, username, password, nextToken, now) IN
    /\ nextToken + r.drawn <= MaxTokens + 1
    /\ SetStore(r.store)
    /\ nextToken' = nextToken + r.drawn
    /\ UNCHANGED <<now, nextChat, hcheck>>

HandleLogout(authorization) ==
    LET r == handle_logout(Store, authorization, now) IN
    /\ SetStore(r.store)
    /\ UNCHANGED <<now, nextToken, nextChat, hcheck>>

\* time passes
Tick ==
    /\ now + TickHours <= MaxTime
    /\ now' = now + TickHours
    /\ UNCHANGED <<users, keys, file, nextToken, nextChat, hcheck>>

(* Users and sessions *)
Next ==
    \/ \E r \in Registrations, p \in Passwords : RegisterUser(r[1], r[2], p)
    \/ \E u \in Usernames, p \in Passwords : AuthenticateUser(u, p)
    \/ \E u \in Usernames : CreateUserSession(u)
    \/ \E k \in PresentedTokens : ValidateSession(k)
    \/ \E u \in Usernames : DeactivateUser(u)
    \/ \E r \in Registrations, p \in Passwords : HandleRegister(r[1], r[2], p)
    \/ \E u \in Usernames, p \in Passwords : HandleLogin(u, p)
    \/ \E h \in AuthHeaders : HandleLogout(h)
    \/ Tick

Spec == Init /\ [][Next]_vars

(* Chats.  The store is constructed over a users.json that holds alice and *)
(* bob, registered in an earlier run.  alice owns the chats; bob is a user *)
(* without chats and carol is nobody's username.                           *)

EmptyStore == [users |-> EmptyDict, keys |-> <<>>, file |-> NoFile]

ChatStore0 ==
    LET S1 == register_user(EmptyStore, "alice", <<"alice@x.com">>, Password0, 0).store
    IN  register_user(S1, "bob", <<"bob@x.com">>, Password0, 0).store

ChatInit ==
    /\ users = ChatStore0.users
    /\ keys = ChatStore0.keys
    /\ file = ChatStore0.file
    /\ now = 0
    /\ nextToken = 1
    /\ nextChat = 1
    /\ hcheck = Idle

ChatUsernames == Usernames \cup {"carol"}

\* the (username, chat_id) pairs the chat operations are called with
ChatTargets ==
    {<<"alice", c>> : c \in ChatIds}
        \cup {<<u, token_urlsafe("C", 1)>> : u \in {"bob", "carol"}}

ChatNext ==
    \/ \E u \in {"alice", "carol"}, title \in Titles : CreateUserChat(u, title)
    \/ \E u \in ChatUsernames : GetUserChats(u)
    \/ \E x \in ChatTargets, th \in ThreadIds : UpdateChatThread(x[1], x[2], th)
    \/ \E x \in ChatTargets : UpdateChatLastMessage(x[1], x[2])
    \/ \E x \in ChatTargets : DeleteUserChat(x[1], x[2])
    \/ \E x \in ChatTargets, title \in Titles : UpdateChatTitle(x[1], x[2], title)
    \/ Tick

ChatSpec == ChatInit /\ [][ChatNext]_vars

----------------------------------------------------------------------------
(* The credential functions on their own: passwords and salts are drawn,  *)
(* then hashed, then verified.                                             *)

PwChars == {"a", "1", ":"}

RECURSIVE StringsUpTo(_, _)
StringsUpTo(chars, n) ==
    IF n = 0 THEN {<<>>}
    ELSE LET shorter == StringsUpTo(chars, n - 1)
         IN  shorter \cup {Append(w, c) : w \in shorter, c \in chars}

HashPasswords == StringsUpTo(PwChars, MaxPwLen)

Seeds == 0 .. MaxSeed

HashInit ==
    /\ users = EmptyDict
    /\ keys = <<>>
    /\ file = NoFile
    /\ now = 0
    /\ nextToken = 1
    /\ nextChat = 1
    /\ hcheck \in [phase : {"drawn"}, p : HashPasswords, p2 : HashPasswords,
                   seed1 : Seeds, seed2 : Seeds]

\* credentials of p under both salts, and of p2 under the first
HashPassword ==
    /\ hcheck.phase = "drawn"
    /\ hcheck' = [phase |-> "hashed",
                  p |-> hcheck.p, p2 |-> hcheck.p2,
                  seed1 |-> hcheck.seed1, seed2 |-> hcheck.seed2,
                  cred1 |-> _hash_password(hcheck.p, hcheck.seed1),
                  cred2 |-> _hash_password(hcheck.p, hcheck.seed2),
                  cred3 |-> _hash_password(hcheck.p2, hcheck.seed1)]
    /\ UNCHANGED <<users, keys, file, now, nextToken, nextChat>>

VerifyPassword ==
    /\ hcheck.phase = "hashed"
    /\ hcheck' = [phase |-> "verified",
                  p |-> hcheck.p, p2 |-> hcheck.p2,
                  seed1 |-> hcheck.seed1, seed2 |-> hcheck.seed2,
                  cred1 |-> hcheck.cred1, cred2 |-> hcheck.cred2,
                  cred3 |-> hcheck.cred3,
                  ok1 |-> _verify_password(hcheck.p, hcheck.cred1),
                  ok2 |-> _verify_password(hcheck.p, hcheck.cred2),
                  ok3 |-> _verify_password(hcheck.p, hcheck.cred3)]
    /\ UNCHANGED <<users, keys, file, now, nextToken, nextChat>>

HashNext == HashPassword \/ VerifyPassword

HashSpec == HashInit /\ [][HashNext]_vars

----------------------------------------------------------------------------
(* Properties.  A property speaks of what a call returns and of the store *)
(* it leaves, in every reachable state and for every input: the operator  *)
(* that models the call is applied to the state, as the actions apply it. *)

\* clock readings a property may suppose, in hours: the hours the clock
\* of the model stops at, the hour before and the hour after each
AnyTime ==
    {t \in 0 .. (MaxTime + SESSION_HOURS) : (t % TickHours) \in {0, 1, TickHours - 1}}

\* a username nobody registers is always at hand
Unregistered == ChatUsernames \ DOMAIN users

DuplicateUsername == [success |-> FALSE, message |-> "Username already exists"]

DuplicateEmail == [success |-> FALSE, message |-> "Email already exists"]

InvalidCredentials == [success |-> FALSE, message |-> "Invalid username or password"]

\* C1: register_user with a username that is already a key of the store
\* returns the duplicate-username result and leaves the store, in memory and
\* on disk, as it is, whatever e-mail address and password are given; the
\* register request then answers without a session token and draws none.
C1_DuplicateUsername ==
    \A u \in DOMAIN users, e \in Emails, p \in Passwords :
        LET r == register_user(Store, u, e, p, now)
            h == handle_register(Store, u, e, p, nextToken, now)
        IN  /\ r.ret = DuplicateUsername
            /\ r.store = Store
            /\ h.ret.success = FALSE
            /\ h.ret.message = DuplicateUsername.message
            /\ h.ret.session_token = None
            /\ h.drawn = 0
            /\ h.store = Store

C1_Witness ==
    /\ DOMAIN users = Usernames
    /\ \E u \in DOMAIN users :
          /\ "session_token" \in DOMAIN users[u]
          /\ users[u]["email"] # <<"bob@x.com">>
          /\ register_user(Store, u, <<"bob@x.com">>, <<"1", "a">>, now).ret
                 = DuplicateUsername

\* C2: register_user with a username that is no key of the store and an
\* e-mail address that some record holds returns the duplicate-email result
\* and leaves the store as it is: no record is added, none is changed.
C2_DuplicateEmail ==
    \A u \in Unregistered, e \in Emails, p \in Passwords :
        (\E k \in DOMAIN users : users[k]["email"] = e) =>
            LET r == register_user(Store, u, e, p, now)
            IN  /\ r.ret = DuplicateEmail
                /\ r.store = Store

C2_Witness ==
    /\ Len(keys) = 2
    /\ register_user(Store, "carol", users[keys[2]]["email"], Password0, now).ret
           = DuplicateEmail

\* C3: authenticate_user answers a registered username given a password that
\* does not verify exactly as it answers an unregistered username, whether
\* or not the registered account is active.
C3_SameFailure ==
    \A u \in DOMAIN users, n \in Unregistered, p \in Passwords, p2 \in Passwords :
        ~_verify_password(p, users[u]["password_hash"]) =>
            authenticate_user(Store, u, p, now).ret
                = authenticate_user(Store, n, p2, now).ret

\* C4: a password verifies against its own credential under either salt, a
\* different password does not verify against it, and the credentials of
\* one password under two distinct salts differ.
C4_HashVerify ==
    hcheck.phase = "verified" =>
        /\ hcheck.ok1
        /\ hcheck.ok2
        /\ hcheck.p # hcheck.p2 => ~hcheck.ok3
        /\ hcheck.p = hcheck.p2 => hcheck.ok3
        /\ hcheck.seed1 # hcheck.seed2 => hcheck.cred1 # hcheck.cred2

C4_Witness ==
    /\ hcheck.phase = "verified"
    /\ hcheck.p # hcheck.p2
    /\ Len(hcheck.p) = Len(hcheck.p2)
    /\ ":" \in Range(hcheck.p)
    /\ hcheck.seed1 # hcheck.seed2
    /\ hcheck.ok1 /\ hcheck.ok2 /\ ~hcheck.ok3
    /\ hcheck.cred1 # hcheck.cred2

Saved(S) == S.file = [exists |-> TRUE, content |-> S.users]

HasSession(us, u) == "session_token" \in DOMAIN us[u]

\* a session token that was drawn and is on nobody's record is on nobody's
\* record after the step: no call stores a token drawn before it
NoRevival ==
    \A n \in 1 .. (nextToken - 1) :
        (\A u \in DOMAIN users : ~Holds(users, u, SessionToken(n)))
            => (\A u \in DOMAIN users' : ~Holds(users', u, SessionToken(n)))

\* C5: for a registered username, the token create_user_session returns
\* validates when validate_session is called next and less than 24 hours
\* later: the identity returned names that username and its stored user_id,
\* and the validation changes nothing.
C5_ImmediateValidation ==
    \A u \in DOMAIN users :
        LET c == create_user_session(Store, u, nextToken, now) IN
        \A t \in AnyTime :
            (now <= t /\ t < now + SESSION_HOURS) =>
                LET v == validate_session(c.store, c.ret, t)
                IN  /\ v.ret.found
                    /\ v.ret.username = u
                    /\ v.ret.user_id = users[u]["user_id"]
                    /\ v.store = c.store

C5_Witness ==
    /\ Len(keys) = 2
    /\ HasSession(users, keys[1])
    /\ HasSession(users, keys[2])
    /\ LET v == validate_session(Store, users[keys[2]]["session_token"], now)
       IN  v.ret.found /\ v.ret.username = keys[2]

\* what C6 says of one state: a stored token whose expiry is not later
\* than the clock does not validate; the validation pops both session fields
\* from the record and saves; after it the token validates at no clock
\* reading, also not at one before the old expiry.
C6_ExpiredState ==
    \A u \in DOMAIN users, t \in AnyTime :
        (/\ HasSession(users, u)
         /\ fromisoformat(users[u]["session_expires"]) <= t) =>
            LET k == users[u]["session_token"]
                v == validate_session(Store, k, t)
            IN  /\ ~v.ret.found
                /\ "session_token" \notin DOMAIN v.store.users[u]
                /\ "session_expires" \notin DOMAIN v.store.users[u]
                /\ Saved(v.store)
                /\ \A t2 \in AnyTime : ~validate_session(v.store, k, t2).ret.found

\* C6: an expired stored token fails validation and is removed from the
\* record and from the file by that validation, and it fails every later
\* validation whatever the clock reads: once removed, no step stores it again.
C6_ExpiredCleared == []C6_ExpiredState /\ [][NoRevival]_vars

C6_Witness ==
    \E u \in DOMAIN users :
        /\ HasSession(users, u)
        /\ fromisoformat(users[u]["session_expires"]) <= now
        /\ ~validate_session(Store, users[u]["session_token"], now).ret.found
        /\ ~HasSession(validate_session(Store, users[u]["session_token"], now).store.users, u)

\* C7: a second create_user_session for a username whose record holds a
\* token T1 stores a token T2 such that T1 validates no more and T2
\* validates to that username; and in every reachable state, at any clock
\* reading, no two presented tokens validate to the same username.
C7_SingleSession ==
    /\ \A u \in DOMAIN users :
          HasSession(users, u) =>
              LET T1 == users[u]["session_token"]
                  c == create_user_session(Store, u, nextToken, now)
              IN  /\ c.ret # T1
                  /\ \A t \in AnyTime : ~validate_session(c.store, T1, t).ret.found
                  /\ validate_session(c.store, c.ret, now).ret
                         = Identity(u, c.store.users[u])
    /\ \A k1 \in PresentedTokens, k2 \in PresentedTokens, t \in AnyTime :
          LET v1 == validate_session(Store, k1, t).ret
              v2 == validate_session(Store, k2, t).ret
          IN  (v1.found /\ v2.found /\ v1.username = v2.username) => k1 = k2

C7_Witness ==
    \E u \in DOMAIN users :
        /\ Holds(users, u, SessionToken(1))
        /\ nextToken = 2
        /\ LET c == create_user_session(Store, u, nextToken, now)
           IN  /\ c.ret = SessionToken(2)
               /\ Holds(c.store.users, u, SessionToken(2))
               /\ validate_session(c.store, SessionToken(2), now).ret.found
               /\ ~validate_session(c.store, SessionToken(1), now).ret.found

\* what C8 says of one state: a logout request whose token validates pops
\* both session fields from that user's record and saves; no other field of
\* the record and no other record changes; the token then validates at no
\* clock reading.
C8_LogoutState ==
    \A h \in AuthHeaders :
        LET a == get_current_user(Store, h, now) IN
        (h # None /\ a.ret.status = 200) =>
            LET u == a.ret.user.username
                k == users[u]["session_token"]
                r == handle_logout(Store, h, now)
            IN  /\ r.ret.status = 200
                /\ DOMAIN r.store.users[u]
                       = DOMAIN users[u] \ {"session_token", "session_expires"}
                /\ \A f \in DOMAIN r.store.users[u] : r.store.users[u][f] = users[u][f]
                /\ DOMAIN r.store.users = DOMAIN users
                /\ \A w \in DOMAIN users \ {u} : r.store.users[w] = users[w]
                /\ r.store.keys = keys
                /\ Saved(r.store)
                /\ \A t \in AnyTime : ~validate_session(r.store, k, t).ret.found

\* C8: logout with a valid token removes the session from the record and
\* from the file and changes nothing else, and the token fails every later
\* validation: once removed, no step stores it again.
C8_Logout == []C8_LogoutState /\ [][NoRevival]_vars

C8_Witness ==
    /\ Len(keys) = 2
    /\ HasSession(users, keys[1])
    /\ HasSession(users, keys[2])
    /\ LET h == <<"Bearer ">> \o users[keys[2]]["session_token"]
           r == handle_logout(Store, h, now)
       IN  /\ r.ret.status = 200
           /\ ~HasSession(r.store.users, keys[2])
           /\ HasSession(r.store.users, keys[1])

\* update_chat_last_message called once at each of the times ts, in order
RECURSIVE MessagesAt(_, _, _, _)
MessagesAt(S, u, c, ts) ==
    IF ts = <<>> THEN S
    ELSE MessagesAt(update_chat_last_message(S, u, c, Head(ts)).store, u, c, Tail(ts))

\* the clock readings of up to n calls, each one of the hours in hs
RECURSIVE TimesUpTo(_, _)
TimesUpTo(hs, n) ==
    IF n = 0 THEN {<<>>}
    ELSE LET shorter == TimesUpTo(hs, n - 1)
         IN  shorter \cup {Append(w, h) : w \in shorter, h \in hs}

CallTimes == {t \in AnyTime : t % TickHours = 0}

\* the readings of successive calls made from hour t on: the clock does not
\* run backwards between them
Successive(ts, t) ==
    /\ ts # <<>> => ts[1] >= t
    /\ \A i \in 1 .. (Len(ts) - 1) : ts[i] <= ts[i + 1]

\* C9: for a user without chats, create_user_chat followed by get_user_chats
\* gives exactly the new chat, with message_count 0 and thread_id None; each
\* update_chat_last_message on a chat raises its message_count by exactly 1
\* and sets last_message_at to the time of the call, so that n calls on the
\* new chat leave message_count n and the time of the last of them.
C9_ChatCounts ==
    /\ \A u \in DOMAIN users, title \in Titles :
          DOMAIN get_user_chats(Store, u) = {} =>
              LET c == create_user_chat(Store, u, title, nextChat, now)
                  chats == get_user_chats(c.store, u)
              IN  /\ DOMAIN chats = {c.ret}
                  /\ chats[c.ret]["message_count"] = 0
                  /\ chats[c.ret]["thread_id"] = None
                  /\ \A ts \in {w \in TimesUpTo(CallTimes, MaxMsgs) : Successive(w, now)} :
                        LET chat == get_user_chats(MessagesAt(c.store, u, c.ret, ts), u)[c.ret]
                        IN  /\ chat["message_count"] = Len(ts)
                            /\ chat["last_message_at"]
                                   = IF ts = <<>> THEN None ELSE isoformat(ts[Len(ts)])
    /\ \A u \in DOMAIN users, t \in AnyTime :
          \A c \in DOMAIN get_user_chats(Store, u) :
              LET r == update_chat_last_message(Store, u, c, t)
                  old == get_user_chats(Store, u)[c]
                  new == get_user_chats(r.store, u)[c]
              IN  /\ new["message_count"] = old["message_count"] + 1
                  /\ new["last_message_at"] = isoformat(t)

C9_Witness ==
    /\ "alice" \in DOMAIN users
    /\ \E c \in DOMAIN get_user_chats(Store, "alice") :
          LET chat == get_user_chats(Store, "alice")[c]
          IN  /\ DOMAIN get_user_chats(Store, "alice") = {c}
              /\ chat["message_count"] = 2
              /\ chat["created_at"] = isoformat(0)
              /\ chat["last_message_at"] = isoformat(TickHours)
              /\ now = TickHours

\* a chat id that was drawn and is not among a user's chats is not among
\* them after the step: no call puts back a chat id drawn before it
NoChatRevival ==
    \A n \in 1 .. (nextChat - 1), u \in DOMAIN users :
        token_urlsafe("C", n) \notin DOMAIN get_user_chats(Store, u)
            => token_urlsafe("C", n) \notin DOMAIN users'[u]["chats"]

\* what C10 says of one state: delete_user_chat on a chat of the user
\* returns True and leaves that user's chats without it; on an unknown
\* username, or on a chat id that is not among the user's chats, it returns
\* False and leaves memory and file as they are.
C10_DeleteState ==
    \A u \in ChatUsernames, c \in ChatIds :
        LET r == delete_user_chat(Store, u, c) IN
        IF u \in DOMAIN users /\ c \in DOMAIN users[u]["chats"]
        THEN /\ r.ret = TRUE
             /\ c \notin DOMAIN get_user_chats(r.store, u)
        ELSE /\ r.ret = FALSE
             /\ r.store = Store

\* C10: delete_user_chat removes an existing chat and returns True, the
\* chat is in no later get_user_chats of that user (once gone, no step puts
\* it back), and on an unknown user or chat it returns False and is a no-op.
C10_DeleteChat == []C10_DeleteState /\ [][NoChatRevival]_vars

C10_Witness ==
    /\ nextChat = 3
    /\ DOMAIN get_user_chats(Store, "alice") = {token_urlsafe("C", 2)}
    /\ delete_user_chat(Store, "alice", token_urlsafe("C", 1)).ret = FALSE
    /\ delete_user_chat(Store, "alice", token_urlsafe("C", 2)).ret = TRUE
    /\ delete_user_chat(Store, "carol", token_urlsafe("C", 2)).ret = FALSE

----------------------------------------------------------------------------
(* Renaming a chat *)

\* C11: update_chat_title returns True exactly when the chat exists under
\* the user; it then sets the title of that chat and leaves every other
\* field of the chat, every other chat and every other user as they were;
\* otherwise it returns False and leaves memory and file as they are.
C11_RenameChat ==
    \A u \in ChatUsernames, c \in ChatIds, title \in Titles :
        LET r == update_chat_title(Store, u, c, title) IN
        /\ r.ret = (u \in DOMAIN users /\ c \in DOMAIN users[u]["chats"])
        /\ IF r.ret
           THEN LET old == users[u]["chats"][c]
                    new == r.store.users[u]["chats"][c]
                IN  /\ new["title"] = title
                    /\ DOMAIN new = DOMAIN old
                    /\ \A f \in DOMAIN old \ {"title"} : new[f] = old[f]
                    /\ DOMAIN r.store.users[u]["chats"] = DOMAIN users[u]["chats"]
                    /\ \A c2 \in DOMAIN users[u]["chats"] \ {c} :
                          r.store.users[u]["chats"][c2] = users[u]["chats"][c2]
                    /\ DOMAIN r.store.users[u] = DOMAIN users[u]
                    /\ \A f \in DOMAIN users[u] \ {"chats"} :
                          r.store.users[u][f] = users[u][f]
                    /\ DOMAIN r.store.users = DOMAIN users
                    /\ \A u2 \in DOMAIN users \ {u} : r.store.users[u2] = users[u2]
                    /\ r.store.keys = keys
           ELSE r.store = Store

C11_Witness ==
    /\ DOMAIN get_user_chats(Store, "alice") = ChatIds
    /\ \E c \in ChatIds :
          LET chat == users["alice"]["chats"][c] IN
          /\ chat["title"] = <<"New Chat">>
          /\ chat["message_count"] = 1
          /\ chat["thread_id"] = <<"thread_1">>
          /\ update_chat_title(Store, "alice", c, <<"My Chat">>).ret = TRUE
          /\ update_chat_title(Store, "bob", c, <<"My Chat">>).ret = FALSE

----------------------------------------------------------------------------
(* One caller, from an empty store: register, a login with a wrong        *)
(* password, a login, a validation of the token, then a chat created,     *)
(* listed, written to, deleted and listed again.  hcheck holds the        *)
(* caller's inputs and, in out, what each call returned, in order.  The   *)
(* clock may advance between the calls, by less than a session's          *)
(* lifetime in all.                                                       *)

ScenarioTickHours == SESSION_HOURS \div 3

ScenarioInit ==
    /\ users = EmptyDict
    /\ keys = <<>>
    /\ file = NoFile
    /\ now = 0
    /\ nextToken = 1
    /\ nextChat = 1
    /\ hcheck \in {[phase |-> "scenario", password |-> x[1], wrong |-> x[2],
                    title |-> title, out |-> <<>>] :
                       x \in {y \in Passwords \X Passwords : y[1] # y[2]},
                       title \in Titles}

\* the k-th call of the scenario is due
Due(k) == hcheck.phase = "scenario" /\ Len(hcheck.out) = k - 1

\* the call has returned ret and left the store S
Returned(S, ret) ==
    /\ SetStore(S)
    /\ hcheck' = [hcheck EXCEPT !.out = Append(@, ret)]

ScenarioRegister ==
    /\ Due(1)
    /\ LET r == register_user(Store, "alice", <<"alice@x.com">>, hcheck.password, now)
       IN  Returned(r.store, r.ret)
    /\ UNCHANGED <<now, nextToken, nextChat>>

ScenarioLoginWrong ==
    /\ Due(2)
    /\ LET r == authenticate_user(Store, "alice", hcheck.wrong, now)
       IN  Returned(r.store, r.ret)
    /\ UNCHANGED <<now, nextToken, nextChat>>

\* login_user: authenticate_user, then create_user_session on success
ScenarioLogin ==
    /\ Due(3)
    /\ LET r == handle_login(Store, "alice", hcheck.password, nextToken, now)
       IN  /\ Returned(r.store, r.ret)
           /\ nextToken' = nextToken + r.drawn
    /\ UNCHANGED <<now, nextChat>>

ScenarioValidate ==
    /\ Due(4)
    /\ LET r == validate_session(Store, hcheck.out[3].session_token, now)
       IN  Returned(r.store, r.ret)
    /\ UNCHANGED <<now, nextToken, nextChat>>

ScenarioCreateChat ==
    /\ Due(5)
    /\ LET r == create_user_chat(Store, "alice", hcheck.title, nextChat, now)
       IN  Returned(r.store, r.ret)
    /\ nextChat' = nextChat + 1
    /\ UNCHANGED <<now, nextToken>>

\* get_user_chats, after the chat is created and after it is deleted
ScenarioListChats ==
    /\ Due(6) \/ Due(9)
    /\ Returned(Store, get_user_chats(Store, "alice"))
    /\ UNCHANGED <<now, nextToken, nextChat>>

\* update_chat_last_message returns nothing: the caller reads the count
ScenarioRecordMessage ==
    /\ Due(7)
    /\ LET r == update_chat_last_message(Store, "alice", hcheck.out[5], now)
       IN  Returned(r.store,
                    get_user_chats(r.store, "alice")[hcheck.out[5]]["message_count"])
    /\ UNCHANGED <<now, nextToken, nextChat>>

ScenarioDeleteChat ==
    /\ Due(8)
    /\ LET r == delete_user_chat(Store, "alice", hcheck.out[5])
       IN  Returned(r.store, r.ret)
    /\ UNCHANGED <<now, nextToken, nextChat>>

ScenarioTick ==
    /\ now + ScenarioTickHours < SESSION_HOURS
    /\ now' = now + ScenarioTickHours
    /\ UNCHANGED <<users, keys, file, nextToken, nextChat, hcheck>>

ScenarioNext ==
    \/ ScenarioRegister
    \/ ScenarioLoginWrong
    \/ ScenarioLogin
    \/ ScenarioValidate
    \/ ScenarioCreateChat
    \/ ScenarioListChats
    \/ ScenarioRecordMessage
    \/ ScenarioDeleteChat
    \/ ScenarioTick

ScenarioSpec == ScenarioInit /\ [][ScenarioNext]_vars

\* the scenario has made its first k calls
Done(k) == hcheck.phase = "scenario" /\ Len(hcheck.out) >= k

\* C12: from an empty store the calls of the scenario return, in order:
\* success with a user_id; the invalid-credentials failure; success with a
\* session token T; the identity of alice; a chat id C; exactly the chat C
\* with the title given and message_count 0; message_count 1; True; no chat.
C12_Scenario ==
    LET out == hcheck.out IN
    /\ Done(1) => out[1].success /\ out[1].user_id = token_urlsafe("U", 1)
    /\ Done(2) => out[2] = InvalidCredentials
    /\ Done(3) => /\ out[3].success
                  /\ out[3].session_token = SessionToken(1)
                  /\ out[3].user_data.user_id = out[1].user_id
    /\ Done(4) => /\ out[4].found
                  /\ out[4].username = "alice"
                  /\ out[4].user_id = out[1].user_id
    /\ Done(5) => out[5] = token_urlsafe("C", 1)
    /\ Done(6) => /\ DOMAIN out[6] = {out[5]}
                  /\ out[6][out[5]]["chat_id"] = out[5]
                  /\ out[6][out[5]]["title"] = hcheck.title
                  /\ out[6][out[5]]["message_count"] = 0
    /\ Done(7) => out[7] = 1
    /\ Done(8) => out[8] = TRUE
    /\ Done(9) => out[9] = EmptyDict

C12_Witness ==
    /\ Done(9)
    /\ hcheck.title = <<"My Chat">>
    /\ now > 0
    /\ DOMAIN users = {"alice"}

----------------------------------------------------------------------------
(* Persistence *)

\* the file holds what memory holds; before the first save there is no
\* file and memory is empty
FileIsMemory ==
    IF file.exists THEN file.content = users ELSE users = EmptyDict

\* a step that changes memory leaves the file equal to memory
SavedOnChange == users' # users => file' = [exists |-> TRUE, content |-> users']

\* what C13 says of the calls that can be made in one state: each mutating
\* operation that returns normally leaves a store whose file is its memory
C13_SavedState ==
    /\ FileIsMemory
    /\ \A x \in Registrations, p \in Passwords :
          LET r == register_user(Store, x[1], x[2], p, now)
          IN  r.ret.success => Saved(r.store)
    /\ \A u \in DOMAIN users, p \in Passwords :
          LET r == authenticate_user(Store, u, p, now)
          IN  r.ret.success => Saved(r.store)
    /\ \A u \in DOMAIN users :
          /\ Saved(create_user_session(Store, u, nextToken, now).store)
          /\ Saved(deactivate_user(Store, u).store)
          /\ LET s == create_user_session(Store, u, nextToken, now)
                 r == handle_logout(s.store, <<"Bearer ">> \o s.ret, now)
             IN  r.ret.status = 200 /\ Saved(r.store)
          /\ \A title \in Titles :
                LET c == create_user_chat(Store, u, title, nextChat, now) IN
                /\ Saved(c.store)
                /\ Saved(update_chat_thread(c.store, u, c.ret, <<"thread_1">>).store)
                /\ Saved(update_chat_last_message(c.store, u, c.ret, now).store)
                /\ Saved(update_chat_title(c.store, u, c.ret, <<"My Chat">>).store)
                /\ Saved(delete_user_chat(c.store, u, c.ret).store)

\* C13: whenever a mutating store operation or the logout has returned
\* normally, the persisted file holds the whole of the in-memory store.
C13_Persisted == []C13_SavedState /\ [][SavedOnChange]_vars

C13_Witness ==
    /\ file.exists
    /\ Len(keys) = 2
    /\ \E u \in DOMAIN users : HasSession(users, u) /\ users[u]["last_login"] # None
    /\ \E u \in DOMAIN users : users[u]["is_active"] = FALSE
    /\ file.content = users

----------------------------------------------------------------------------
(* The store on disk, step by step.  _save_users opens users.json for     *)
(* writing, which empties it, json.dump fills the buffer of the file      *)
(* object from self.users, and leaving the with block flushes the buffer  *)
(* into the file from its start.  The process may stop between any two of *)
(* these steps, and UserDatabase() reads the file when it starts again.   *)
(* Handler bodies run on the event loop; get_current_user is a plain def  *)
(* dependency, so its validate_session runs on a worker thread.           *)

\* users.json just opened for writing: an empty document
Truncated == [truncated |-> TRUE]

\* users.json holding one document written over a longer one
Garbled == [garbled |-> TRUE]

\* json.load accepts the document
Parseable(content) == content # Truncated /\ content # Garbled

\* _load_users: no file gives {}; a document json.load rejects is logged
\* and gives {} as well; nothing is raised
_load_users(f) ==
    IF ~f.exists THEN [users |-> EmptyDict, raised |-> FALSE]
    ELSE IF ~Parseable(f.content) THEN [users |-> EmptyDict, raised |-> FALSE]
    ELSE [users |-> f.content, raised |-> FALSE]

\* open(self.db_file, 'w')
open_w(f) == [exists |-> TRUE, content |-> Truncated]

\* document a is document b with some keys left out: a is no longer than b
SubDoc(a, b) ==
    /\ DOMAIN a \subseteq DOMAIN b
    /\ \A u \in DOMAIN a :
          /\ DOMAIN a[u] \subseteq DOMAIN b[u]
          /\ \A k \in DOMAIN a[u] :
                IF k = "chats"
                THEN /\ DOMAIN a[u][k] \subseteq DOMAIN b[u][k]
                     /\ \A c \in DOMAIN a[u][k] : a[u][k][c] = b[u][k][c]
                ELSE a[u][k] = b[u][k]

\* the documents the file may hold once buf is flushed from its start over
\* what the file holds: buf when buf is at least as long, else buf followed
\* by the rest of the longer document
Flushed(content, buf) ==
    IF content = Truncated THEN {buf}
    ELSE IF content = Garbled THEN {buf, Garbled}
    ELSE IF SubDoc(content, buf) THEN {buf}
    ELSE IF SubDoc(buf, content) THEN {Garbled}
    ELSE {buf, Garbled}

\* a users.json written by an earlier run: alice, her session and a chat
PersistStore0 ==
    LET S1 == register_user(EmptyStore, "alice", <<"alice@x.com">>, Password0, 0).store
        S2 == create_user_session(S1, "alice", 1, 0).store
    IN  create_user_chat(S2, "alice", <<"New Chat">>, 1, 0).store

IdleThread == [pc |-> "idle"]

Threads == {"loop", "pool"}

\* the process is not running; the file is absent or left by an earlier run
PersistInit ==
    /\ users = EmptyDict
    /\ keys = <<>>
    /\ file \in {NoFile, PersistStore0.file}
    /\ now = 0
    /\ nextToken = 2
    /\ nextChat = 2
    /\ hcheck = [phase |-> "down", loop |-> IdleThread, pool |-> IdleThread]

Running == hcheck.phase = "run"

\* the orders in which json.load may have met the keys of a document
Orders(D) ==
    {s \in [1 .. Cardinality(D) -> D] : \A i, j \in DOMAIN s : s[i] = s[j] => i = j}

\* UserDatabase(): self.users = self._load_users()
Construct ==
    /\ hcheck.phase = "down"
    /\ users' = _load_users(file).users
    /\ keys' \in Orders(DOMAIN users')
    /\ hcheck' = [hcheck EXCEPT
                     !.phase = IF _load_users(file).raised THEN "down" ELSE "run"]
    /\ UNCHANGED <<file, now, nextToken, nextChat>>

\* thread th runs a method up to its call of _save_users: r is what the
\* method makes of the store; the file is not touched yet
Mutate(th, r) ==
    /\ Running
    /\ hcheck[th].pc = "idle"
    /\ users' = r.store.users
    /\ keys' = r.store.keys
    /\ hcheck' = [hcheck EXCEPT
                     ![th] = IF r.store.users # users THEN [pc |-> "mutated"]
                             ELSE IdleThread]
    /\ UNCHANGED <<file, now, nextToken>>

\* handler bodies, on the event loop
LoopRegister ==
    /\ Mutate("loop", register_user(Store, "bob", <<"bob@x.com">>, Password0, now))
    /\ UNCHANGED nextChat

LoopCreateChat ==
    /\ nextChat <= MaxChats
    /\ Mutate("loop", create_user_chat(Store, "alice", <<"New Chat">>, nextChat, now))
    /\ nextChat' = IF "alice" \in DOMAIN users THEN nextChat + 1 ELSE nextChat

LoopDeleteChat ==
    /\ Mutate("loop", delete_user_chat(Store, "alice", token_urlsafe("C", 1)))
    /\ UNCHANGED nextChat

\* get_current_user, on a worker thread
PoolValidate ==
    /\ Mutate("pool", validate_session(Store, SessionToken(1), now))
    /\ UNCHANGED nextChat

\* with open(self.db_file, 'w') as f:
SaveOpen(th) ==
    /\ Running
    /\ hcheck[th].pc = "mutated"
    /\ file' = open_w(file)
    /\ hcheck' = [hcheck EXCEPT ![th] = [pc |-> "opened"]]
    /\ UNCHANGED <<users, keys, now, nextToken, nextChat>>

\* json.dump(self.users, f, indent=2): the document goes to f's buffer
SaveDump(th) ==
    /\ Running
    /\ hcheck[th].pc = "opened"
    /\ hcheck' = [hcheck EXCEPT ![th] = [pc |-> "dumped", buf |-> users]]
    /\ UNCHANGED <<users, keys, file, now, nextToken, nextChat>>

\* the with block is left: the buffer is flushed and the file closed
SaveClose(th) ==
    /\ Running
    /\ hcheck[th].pc = "dumped"
    /\ \E content \in Flushed(file.content, hcheck[th].buf) :
          file' = [exists |-> TRUE, content |-> content]
    /\ hcheck' = [hcheck EXCEPT ![th] = IdleThread]
    /\ UNCHANGED <<users, keys, now, nextToken, nextChat>>

\* the process stops: memory and the buffers of its open files are gone
Crash ==
    /\ Running
    /\ users' = EmptyDict
    /\ keys' = <<>>
    /\ hcheck' = [phase |-> "down", loop |-> IdleThread, pool |-> IdleThread]
    /\ UNCHANGED <<file, now, nextToken, nextChat>>

PersistNext ==
    \/ Construct
    \/ LoopRegister
    \/ LoopCreateChat
    \/ LoopDeleteChat
    \/ PoolValidate
    \/ \E th \in Threads : SaveOpen(th)
    \/ \E th \in Threads : SaveDump(th)
    \/ \E th \in Threads : SaveClose(th)
    \/ Crash
    \/ Tick

PersistSpec == PersistInit /\ [][PersistNext]_vars

\* the constructor returns normally over a users.json that does not parse
LoadedCorrupt ==
    /\ hcheck.phase = "down"
    /\ file.exists /\ ~Parseable(file.content)
    /\ hcheck'.phase = "run"

\* C14: UserDatabase() over a missing users.json starts with an empty
\* store; over a users.json that does not parse it raises: it never
\* returns a store, so never an empty one that a later save would write
\* over the file.
C14_LoadCorrupt ==
    /\ [](~file.exists => _load_users(file) = [users |-> EmptyDict, raised |-> FALSE])
    /\ [][~LoadedCorrupt]_vars

\* C15: users.json is replaced in one step: whenever it exists it holds a
\* complete document, at every step of _save_users and when the process
\* stops inside it, never an empty or a partial one.
C15_AtomicReplace == file.exists => Parseable(file.content)

\* no call is past its mutation and short of the end of its save
Quiescent == Running /\ \A th \in Threads : hcheck[th].pc = "idle"

\* C18: mutating operations are serialized, so that once the
\* mutate-and-save sequences of the requests handled at the same time are
\* complete, the file holds the effects of all of them: it is the store in
\* memory.  (A file left empty by a process that stopped inside a save is
\* C15's case and is left aside here.)
C18_Serialized ==
    (Quiescent /\ file.exists /\ file.content # Truncated) => file.content = users

----------------------------------------------------------------------------
(* A write that fails: open() or json.dump raises inside _save_users,     *)
(* which logs the error and raises it again.  The file is left as it was  *)
(* and memory keeps the mutation.                                         *)

Outcome(S, ret, raised) == [store |-> S, ret |-> ret, raised |-> raised]

\* a method without a try block around its save, whose reply on a writable
\* disk is r: the exception of _save_users leaves the method
Propagates(S, r) ==
    IF r.store.users # S.users
    THEN Outcome([r.store EXCEPT !.file = S.file], None, TRUE)
    ELSE Outcome(r.store, r.ret, FALSE)

\* validate_session: the save is inside the try block whose bare except
\* passes; the loop goes on and the method returns as on a writable disk
validate_session_unwritable(S, session_token, t) ==
    LET r == validate_session(S, session_token, t)
    IN  Outcome([r.store EXCEPT !.file = S.file], r.ret, FALSE)

\* C16: with the disk unwritable, every store operation that has changed
\* memory raises to its caller; none returns a normal result.
C16_WriteFailureRaised ==
    /\ \A x \in Registrations, p \in Passwords :
          LET o == Propagates(Store, register_user(Store, x[1], x[2], p, now))
          IN  o.store.users # users => o.raised
    /\ \A u \in DOMAIN users, t \in AnyTime :
          /\ \A p \in Passwords :
                LET o == Propagates(Store, authenticate_user(Store, u, p, t))
                IN  o.store.users # users => o.raised
          /\ LET o == Propagates(Store, create_user_session(Store, u, nextToken, t))
             IN  o.store.users # users => o.raised
          /\ LET o == Propagates(Store, deactivate_user(Store, u))
             IN  o.store.users # users => o.raised
    /\ \A k \in PresentedTokens, t \in AnyTime :
          LET o == validate_session_unwritable(Store, k, t)
          IN  o.store.users # users => o.raised

----------------------------------------------------------------------------
(* Unauthorized requests *)

\* C17: get_current_user answers every unauthenticated request alike: no
\* header, a token on nobody's record and a token whose session has expired
\* get the same 401 response, which is also the response a store without
\* users gives.
C17_UniformUnauthorized ==
    \A t \in AnyTime :
        \A h1 \in AuthHeaders, h2 \in AuthHeaders :
            LET r1 == get_current_user(Store, h1, t).ret
                r2 == get_current_user(Store, h2, t).ret
            IN  /\ (r1.status # 200 /\ r2.status # 200) => r1 = r2
                /\ r1.status # 200 => r1 = get_current_user(EmptyStore, h1, t).ret

----------------------------------------------------------------------------
(* The chat request.  The hosted assistant is outside the program: what   *)
(* it does with one request is drawn from ExternalOutcomes.               *)

\* message.strip(): blanks at both ends are dropped
RECURSIVE lstrip(_)
lstrip(s) == IF s # <<>> /\ Head(s) = " " THEN lstrip(Tail(s)) ELSE s

RECURSIVE rstrip(_)
rstrip(s) ==
    IF s # <<>> /\ s[Len(s)] = " " THEN rstrip(SubSeq(s, 1, Len(s) - 1)) ELSE s

strip(s) == rstrip(lstrip(s))

SorryReply == <<"Sorry, I encountered an error processing your request.">>

OutOfContext == <<"Out of context. Please ask based on the uploaded documents.">>

\* one request as the assistant service treats it: whether ASSISTANT_ID is
\* set, whether threads.create succeeds, and how far send_message gets:
\* messages.create raises; the run does not complete; the run completes
\* with no usable answer; the run completes with an answer
ExternalOutcomes ==
    {[assistant |-> FALSE, thread |-> TRUE, send |-> "answer"],
     [assistant |-> TRUE, thread |-> FALSE, send |-> "answer"],
     [assistant |-> TRUE, thread |-> TRUE, send |-> "append_raises"],
     [assistant |-> TRUE, thread |-> TRUE, send |-> "run_failed"],
     [assistant |-> TRUE, thread |-> TRUE, send |-> "no_answer"],
     [assistant |-> TRUE, thread |-> TRUE, send |-> "answer"]}

\* send_message: the reply, and whether the user message was added to the
\* thread; every exception is caught and answered with SorryReply
send_message(thread_id, message, ext) ==
    CASE ext.send = "append_raises" -> [reply |-> SorryReply, appended |-> FALSE]
      [] ext.send = "run_failed"    -> [reply |-> SorryReply, appended |-> TRUE]
      [] ext.send = "no_answer"     -> [reply |-> OutOfContext, appended |-> TRUE]
      [] OTHER                      -> [reply |-> <<"answer">>, appended |-> TRUE]

\* the reply of the chat handler: the store it leaves, its response, and
\* whether the message of the request was added to the conversation
ChatHandled(S, response, appended) ==
    [store |-> S, ret |-> response, appended |-> appended]

HttpError(status, detail) == [status |-> status, detail |-> detail]

\* chat: the handler body, for the user of the validated session
handle_chat(S, username, message, chat_id, thread_id, ext, t) ==
    IF strip(message) = EmptyStr
    THEN ChatHandled(S, HttpError(400, "Message cannot be empty"), FALSE)
    ELSE IF ~ext.assistant
    THEN ChatHandled(S,
                     HttpError(500, "Assistant not configured. Please set ASSISTANT_ID environment variable."),
                     FALSE)
    ELSE LET user_chats == get_user_chats(S, username) IN
    IF chat_id \notin DOMAIN user_chats
    THEN ChatHandled(S, HttpError(404, "Chat not found"), FALSE)
    ELSE LET chat_data == user_chats[chat_id]
             known == IF thread_id # None /\ thread_id # EmptyStr THEN thread_id
                      ELSE Get(chat_data, "thread_id", None)
             create == known = None \/ known = EmptyStr
         IN
    IF create /\ ~ext.thread
    THEN \* create_thread raises; the handler answers 500 with the error's text
         ChatHandled(S, HttpError(500, "Error processing message: "), FALSE)
    ELSE LET used == IF create THEN <<"thread_1">> ELSE known
             S1 == IF create
                   THEN update_chat_thread(S, username, chat_id, used).store
                   ELSE S
             sent == send_message(used, message, ext)
             S2 == update_chat_last_message(S1, username, chat_id, t).store
         IN  ChatHandled(S2,
                         [status |-> 200, reply |-> sent.reply, thread_id |-> used],
                         sent.appended)

Messages == {<<"h", "i">>, <<" ">>}

HandleChat(username, message, chat_id, thread_id, ext) ==
    /\ HasChat(Store, username, chat_id)
          => users[username]["chats"][chat_id]["message_count"] < MaxMsgs
    /\ SetStore(handle_chat(Store, username, message, chat_id, thread_id, ext, now).store)
    /\ UNCHANGED <<now, nextToken, nextChat, hcheck>>

\* create_thread (POST /api/thread), for the user of the validated session.
\* UserDatabase has no attribute update_user_thread: once the thread is
\* created the call raises AttributeError, which the handler's except clause
\* answers with 500, as it answers a create_thread that raised
handle_create_thread(S, username, ext) ==
    IF ~ext.thread
    THEN Reply(S, HttpError(500, "Error creating thread: "))
    ELSE Reply(S, HttpError(500,
                 "Error creating thread: 'UserDatabase' object has no attribute 'update_user_thread'"))

HandleCreateThread(username, ext) ==
    /\ SetStore(handle_create_thread(Store, username, ext).store)
    /\ UNCHANGED <<now, nextToken, nextChat, hcheck>>

\* the chat and thread requests of alice and bob, and alice opening chats
ChatHandlerNext ==
    \/ \E title \in Titles : CreateUserChat("alice", title)
    \/ \E x \in ChatTargets, message \in Messages,
          thread_id \in ThreadIds \cup {None}, ext \in ExternalOutcomes :
          HandleChat(x[1], message, x[2], thread_id, ext)
    \/ \E u \in Usernames, ext \in ExternalOutcomes : HandleCreateThread(u, ext)
    \/ Tick

ChatHandlerSpec == ChatInit /\ [][ChatHandlerNext]_vars

\* C19: a chat request whose message was added to the conversation raises
\* the chat's message_count by exactly 1; a request that was rejected, or
\* whose send to the assistant failed, leaves message_count and
\* last_message_at as they were.
C19_CountsAppended ==
    \A x \in ChatTargets, message \in Messages,
       thread_id \in ThreadIds \cup {None}, ext \in ExternalOutcomes :
        HasChat(Store, x[1], x[2]) =>
            LET r == handle_chat(Store, x[1], message, x[2], thread_id, ext, now)
                old == users[x[1]]["chats"][x[2]]
                new == r.store.users[x[1]]["chats"][x[2]]
            IN  IF r.appended
                THEN new["message_count"] = old["message_count"] + 1
                ELSE /\ new["message_count"] = old["message_count"]
                     /\ new["last_message_at"] = old["last_message_at"]

----------------------------------------------------------------------------
(* Lifetime of user records *)

\* every user of the state is a user of us, with the user_id and the
\* e-mail address it has in the state
KeepsUsers(us) ==
    \A u \in DOMAIN users :
        /\ u \in DOMAIN us
        /\ us[u]["user_id"] = users[u]["user_id"]
        /\ us[u]["email"] = users[u]["email"]

\* what C20 says of the calls that can be made in one state
C20_KeptState ==
    /\ \A u \in DOMAIN users :
          LET r == deactivate_user(Store, u) IN
          /\ r.store.users = [users EXCEPT ![u] = Put(users[u], "is_active", FALSE)]
          /\ r.store.keys = keys
          /\ \A title \in Titles :
                LET c == create_user_chat(Store, u, title, nextChat, now) IN
                /\ KeepsUsers(c.store.users)
                /\ KeepsUsers(update_chat_thread(c.store, u, c.ret, <<"thread_1">>).store.users)
                /\ KeepsUsers(update_chat_last_message(c.store, u, c.ret, now).store.users)
                /\ KeepsUsers(update_chat_title(c.store, u, c.ret, <<"My Chat">>).store.users)
                /\ KeepsUsers(delete_user_chat(c.store, u, c.ret).store.users)
    /\ \A h \in AuthHeaders, t \in AnyTime :
          KeepsUsers(handle_logout(Store, h, t).store.users)

\* C20: user records are never removed: every user of a state is a user of
\* the next state, with the same user_id and e-mail address, whatever
\* operation is called; deactivate_user only sets is_active to False.
C20_NeverRemoved == []C20_KeptState /\ [][KeepsUsers(users')]_vars

C20_Witness ==
    /\ Len(keys) = 2
    /\ DOMAIN users = {"alice", "bob"}
    /\ users["alice"]["is_active"] = FALSE
    /\ users["alice"]["user_id"] = token_urlsafe("U", 1)
    /\ users["alice"]["email"] = <<"alice@x.com">>
    /\ ~HasSession(users, "alice")
    /\ now > 0

----------------------------------------------------------------------------
(* Deactivated accounts *)

AccountDeactivated == [success |-> FALSE, message |-> "Account is deactivated"]

\* a user whose account is deactivated is a user of the next state, with
\* the account still deactivated
StaysDeactivated ==
    \A u \in DOMAIN users :
        users[u]["is_active"] = FALSE =>
            u \in DOMAIN users' /\ users'[u]["is_active"] = FALSE

\* what C21 says of one state
C21_DeactivatedState ==
    /\ \A u \in DOMAIN users, p \in Passwords, t \in AnyTime :
          LET d == deactivate_user(Store, u)
              a == authenticate_user(d.store, u, p, t)
          IN  /\ d.ret = TRUE
              /\ _verify_password(p, users[u]["password_hash"]) =>
                    /\ a.ret = AccountDeactivated
                    /\ a.store = d.store
    /\ \A u \in DOMAIN users, p \in Passwords, t \in AnyTime :
          (/\ users[u]["is_active"] = FALSE
           /\ _verify_password(p, users[u]["password_hash"])) =>
              authenticate_user(Store, u, p, t) = Reply(Store, AccountDeactivated)
    /\ \A u \in Unregistered : deactivate_user(Store, u) = Reply(Store, FALSE)

\* C21: once deactivate_user has returned True for a user, authenticate_user
\* with that user's password answers that the account is deactivated and
\* leaves last_login and the file as they are, in every later state: no step
\* makes the account active again; deactivate_user on an unknown username
\* returns False and leaves memory and file as they are.
C21_Deactivated == []C21_DeactivatedState /\ [][StaysDeactivated]_vars

C21_Witness ==
    /\ DOMAIN users = Usernames
    /\ now > 0
    /\ \E u \in DOMAIN users, p \in Passwords :
          /\ users[u]["is_active"] = FALSE
          /\ users[u]["last_login"] = isoformat(0)
          /\ _verify_password(p, users[u]["password_hash"])
          /\ authenticate_user(Store, u, p, now).ret = AccountDeactivated

----------------------------------------------------------------------------
(* Uniqueness of usernames and e-mail addresses *)

\* C22: in every state reached from the empty store, each record is stored
\* under the key that is its own username field, so no two records share a
\* username, and no two records hold the same e-mail address.
C22_UniqueUsers ==
    /\ \A u \in DOMAIN users : users[u]["username"] = u
    /\ \A u1 \in DOMAIN users, u2 \in DOMAIN users :
          users[u1]["email"] = users[u2]["email"] => u1 = u2
    /\ \A i \in DOMAIN keys, j \in DOMAIN keys : keys[i] = keys[j] => i = j

C22_Witness ==
    /\ keys = <<"bob", "alice">>
    /\ users["bob"]["email"] = <<"bob@x.com">>
    /\ users["alice"]["email"] = <<"alice@x.com">>
    /\ users["bob"]["last_login"] # None
    /\ ~register_user(Store, "bob", <<"alice@x.com">>, Password0, now).ret.success

----------------------------------------------------------------------------
(* The chat list request *)

\* a < b for two str values made of digits: the first differing character
\* decides, and a proper prefix is the smaller
RECURSIVE StrLess(_, _)
StrLess(a, b) ==
    IF b = <<>> THEN FALSE
    ELSE IF a = <<>> THEN TRUE
    ELSE IF Head(a) = Head(b) THEN StrLess(Tail(a), Tail(b))
    ELSE IndexOf(DecChars, Head(a)) < IndexOf(DecChars, Head(b))

\* the keys of a chats dict in insertion order: chat ids are inserted as
\* they are drawn, and an assignment to a key that is there keeps its place
ChatKeys(chats) ==
    SelectSeq([n \in 1 .. (Len(HexChars) - 1) |-> token_urlsafe("C", n)],
              LAMBDA c : c \in DOMAIN chats)

ChatResponse(chat_id, chat_data) ==
    [chat_id |-> chat_id,
     title |-> chat_data["title"],
     created_at |-> chat_data["created_at"],
     last_message_at |-> Get(chat_data, "last_message_at", None),
     message_count |-> Get(chat_data, "message_count", 0)]

\* x.last_message_at or x.created_at
SortKey(x) ==
    IF x.last_message_at # None /\ x.last_message_at # EmptyStr
    THEN x.last_message_at
    ELSE x.created_at

\* x put into a list that is in descending order of SortKey, behind the
\* entries whose key is not smaller
RECURSIVE InsertDescending(_, _)
InsertDescending(sorted, x) ==
    IF sorted = <<>> THEN <<x>>
    ELSE IF StrLess(SortKey(Head(sorted)), SortKey(x)) THEN <<x>> \o sorted
    ELSE <<Head(sorted)>> \o InsertDescending(Tail(sorted), x)

\* a slip: the list is left in the order of the dict
sort_reverse_Unsorted(chats_list) == chats_list

\* chats_list.sort(key=..., reverse=True): a stable sort, entries with equal
\* keys stay in the order they had
RECURSIVE sort_reverse(_)
sort_reverse(chats_list) ==
    IF chats_list = <<>> THEN <<>>
    ELSE InsertDescending(sort_reverse(SubSeq(chats_list, 1, Len(chats_list) - 1)),
                          chats_list[Len(chats_list)])

\* get_user_chats of main.py (GET /api/chats), for the user of the session
handle_get_user_chats(S, username) ==
    LET user_chats == get_user_chats(S, username)
        ids == ChatKeys(user_chats)
        chats_list == [i \in DOMAIN ids |-> ChatResponse(ids[i], user_chats[ids[i]])]
    IN  [status |-> 200, chats |-> sort_reverse(chats_list)]

\* the time a list entry is ordered by
KeyTime(x) == fromisoformat(SortKey(x))

\* C23: the list GET /api/chats returns holds exactly the chats of the user,
\* each once and with the fields of its record, in descending order of the
\* time that is the chat's last_message_at when set and its created_at
\* otherwise: of two adjacent entries the first is not the older one.
C23_ChatListOrder ==
    \A u \in ChatUsernames :
        LET chats == get_user_chats(Store, u)
            r == handle_get_user_chats(Store, u).chats
        IN  /\ Len(r) = Cardinality(DOMAIN chats)
            /\ {r[i].chat_id : i \in DOMAIN r} = DOMAIN chats
            /\ \A i \in DOMAIN r : r[i] = ChatResponse(r[i].chat_id, chats[r[i].chat_id])
            /\ \A i \in 1 .. (Len(r) - 1) : KeyTime(r[i]) >= KeyTime(r[i + 1])

C23_Witness ==
    /\ now = TickHours
    /\ DOMAIN get_user_chats(Store, "alice") = ChatIds
    /\ LET chats == users["alice"]["chats"]
           r == handle_get_user_chats(Store, "alice").chats
       IN  /\ chats[token_urlsafe("C", 1)]["last_message_at"] = None
           /\ chats[token_urlsafe("C", 2)]["created_at"] = isoformat(TickHours)
           /\ r[1].chat_id = token_urlsafe("C", 2)
           /\ r[2].chat_id = token_urlsafe("C", 1)

----------------------------------------------------------------------------
(* The thread a chat request sends on *)

\* the thread_id field of a chat request: absent, the thread the service
\* gave this chat, or a thread of some other conversation
RequestThreadIds == ThreadIds \cup {None, <<"thread_x">>}

\* C24: a chat request that reaches send_message sends on the thread whose
\* id is stored in the record of its chat at that time, a thread being
\* created and stored first when the record has none: the thread the
\* request reports it sent on is the thread_id of the chat record.
C24_SendsOnStoredThread ==
    \A x \in ChatTargets, message \in Messages,
       thread_id \in RequestThreadIds, ext \in ExternalOutcomes :
        LET r == handle_chat(Store, x[1], message, x[2], thread_id, ext, now) IN
        r.ret.status = 200 =>
            r.store.users[x[1]]["chats"][x[2]]["thread_id"] = r.ret.thread_id

----------------------------------------------------------------------------
(* The lifetime of a session *)

\* a token that stays on a record keeps the expiry it was stored with
ExpiryKept ==
    \A u \in DOMAIN users :
        (/\ HasSession(users, u)
         /\ u \in DOMAIN users'
         /\ HasSession(users', u)
         /\ users'[u]["session_token"] = users[u]["session_token"]) =>
            users'[u]["session_expires"] = users[u]["session_expires"]

\* what C25 says of one state: for the token create_user_session issues
\* now, and for a token that is on a record, at every clock reading t
C25_BoundaryState ==
    /\ \A u \in DOMAIN users, t \in AnyTime :
          LET c == create_user_session(Store, u, nextToken, now)
              v == validate_session(c.store, c.ret, t)
          IN  /\ c.store.users[u]["session_expires"] = isoformat(now + SESSION_HOURS)
              /\ IF t < now + SESSION_HOURS
                 THEN v = Reply(c.store, Identity(u, c.store.users[u]))
                 ELSE /\ ~v.ret.found
                      /\ ~HasSession(v.store.users, u)
                      /\ Saved(v.store)
    /\ \A u \in DOMAIN users, t \in AnyTime :
          HasSession(users, u) =>
              LET v == validate_session(Store, users[u]["session_token"], t)
              IN  IF t < fromisoformat(users[u]["session_expires"])
                  THEN v = Reply(Store, Identity(u, users[u]))
                  ELSE /\ ~v.ret.found
                       /\ ~HasSession(v.store.users, u)
                       /\ Saved(v.store)

\* C25: a token issued at hour t, while it is the token of its user's
\* record, validates at every clock reading before t + 24 and fails at
\* every reading from t + 24 on: at exactly t + 24 the session counts as
\* expired and is cleared from the record and the file.
C25_ExpiryBoundary == []C25_BoundaryState /\ [][ExpiryKept]_vars

C25_Witness ==
    /\ now = SESSION_HOURS
    /\ \E u \in DOMAIN users, w \in DOMAIN users :
          /\ HasSession(users, u)
          /\ users[u]["session_expires"] = isoformat(now)
          /\ ~validate_session(Store, users[u]["session_token"], now).ret.found
          /\ validate_session(Store, users[u]["session_token"], now - 1).ret.found
          /\ HasSession(users, w)
          /\ users[w]["session_expires"] = isoformat(now + SESSION_HOURS)
          /\ validate_session(Store, users[w]["session_token"], now).ret.found

----------------------------------------------------------------------------
(* The thread request *)

\* C26: a thread request of a user of the store for which the service
\* creates a thread answers 200 with the id of that thread and leaves the
\* thread recorded on the user's record.
C26_ThreadRecorded ==
    \A u \in DOMAIN users, ext \in ExternalOutcomes :
        ext.thread =>
            LET r == handle_create_thread(Store, u, ext) IN
            /\ r.ret.status = 200
            /\ r.ret.thread_id = <<"thread_1">>
            /\ Get(r.store.users[u], "thread_id", None) = <<"thread_1">>

----------------------------------------------------------------------------
(* The chat requests of main.py with their session check: each handler    *)
(* body runs for current_user.username, the user get_current_user found   *)
(* for the Authorization header.                                          *)

\* create_chat (POST /api/chats)
handle_create_chat(S, authorization, title, n, t) ==
    LET a == get_current_user(S, authorization, t) IN
    IF a.ret.status # 200 THEN Handled(a.store, a.ret, 0)
    ELSE LET username == a.ret.user.username
             c == create_user_chat(a.store, username, title, n, t)
         IN  IF c.ret = None
             THEN Handled(c.store, HttpError(500, "Error creating chat"), 0)
             ELSE LET chat_info == get_user_chats(c.store, username)[c.ret]
                  IN  Handled(c.store,
                              [status |-> 200, chat |-> ChatResponse(c.ret, chat_info)],
                              1)

\* delete_chat (DELETE /api/chats/{chat_id})
handle_delete_chat(S, authorization, chat_id, t) ==
    LET a == get_current_user(S, authorization, t) IN
    IF a.ret.status # 200 THEN Reply(a.store, a.ret)
    ELSE LET d == delete_user_chat(a.store, a.ret.user.username, chat_id)
         IN  IF ~d.ret
             THEN Reply(d.store, HttpError(404, "Chat not found"))
             ELSE Reply(d.store, [status |-> 200, success |-> TRUE,
                                  message |-> "Chat deleted successfully"])

\* update_chat_title (PUT /api/chats/{chat_id}/title)
handle_update_chat_title(S, authorization, chat_id, new_title, t) ==
    LET a == get_current_user(S, authorization, t) IN
    IF a.ret.status # 200 THEN Reply(a.store, a.ret)
    ELSE IF new_title = None \/ new_title = EmptyStr
    THEN Reply(a.store, HttpError(400, "Title is required"))
    ELSE LET r == update_chat_title(a.store, a.ret.user.username, chat_id, new_title)
         IN  IF ~r.ret
             THEN Reply(r.store, HttpError(404, "Chat not found"))
             ELSE Reply(r.store, [status |-> 200, success |-> TRUE,
                                  message |-> "Chat title updated successfully"])

\* chat (POST /api/chat) of a request without thread_id, answered by the
\* assistant
handle_chat_request(S, authorization, message, chat_id, t) ==
    LET a == get_current_user(S, authorization, t) IN
    IF a.ret.status # 200 THEN Reply(a.store, a.ret)
    ELSE LET r == handle_chat(a.store, a.ret.user.username, message, chat_id, None,
                              [assistant |-> TRUE, thread |-> TRUE, send |-> "answer"], t)
         IN  Reply(r.store, r.ret)

\* get_user_chats (GET /api/chats)
handle_list_chats(S, authorization, t) ==
    LET a == get_current_user(S, authorization, t) IN
    IF a.ret.status # 200 THEN Reply(a.store, a.ret)
    ELSE Reply(a.store, handle_get_user_chats(a.store, a.ret.user.username))

(* Two users with chats.  The users.json the store is constructed over     *)
(* holds alice and bob, each with a session and each with a chat; the two  *)
(* chats have the same chat_id, which nothing in the code excludes: a chat *)
(* id is a key of its owner's chats dict only.  The clock stands still.    *)

ScopeStore0 ==
    LET S1 == create_user_session(ChatStore0, "alice", 1, 0).store
        S2 == create_user_session(S1, "bob", 2, 0).store
        S3 == create_user_chat(S2, "alice", <<"New Chat">>, 1, 0).store
    IN  create_user_chat(S3, "bob", <<"New Chat">>, 1, 0).store

ScopeInit ==
    /\ users = ScopeStore0.users
    /\ keys = ScopeStore0.keys
    /\ file = ScopeStore0.file
    /\ now = 0
    /\ nextToken = 3
    /\ nextChat = 2
    /\ hcheck = Idle

\* the headers of alice, of bob, and of requests without a session
ScopeHeaders ==
    {None, <<"Bearer ">> \o SessionToken(1), <<"Bearer ">> \o SessionToken(2),
     <<"Bearer ", "x">>}

ScopeCreateChat(authorization, title) ==
    LET r == handle_create_chat(Store, authorization, title, nextChat, now) IN
    /\ nextChat + r.drawn <= MaxChats + 1
    /\ SetStore(r.store)
    /\ nextChat' = nextChat + r.drawn
    /\ UNCHANGED <<now, nextToken, hcheck>>

ScopeDeleteChat(authorization, chat_id) ==
    /\ SetStore(handle_delete_chat(Store, authorization, chat_id, now).store)
    /\ UNCHANGED <<now, nextToken, nextChat, hcheck>>

ScopeUpdateChatTitle(authorization, chat_id, new_title) ==
    /\ SetStore(handle_update_chat_title(Store, authorization, chat_id, new_title, now).store)
    /\ UNCHANGED <<now, nextToken, nextChat, hcheck>>

ScopeChat(authorization, chat_id) ==
    /\ LET a == get_current_user(Store, authorization, now).ret IN
       (a.status = 200 /\ HasChat(Store, a.user.username, chat_id))
           => users[a.user.username]["chats"][chat_id]["message_count"] < MaxMsgs
    /\ SetStore(handle_chat_request(Store, authorization, <<"h", "i">>, chat_id, now).store)
    /\ UNCHANGED <<now, nextToken, nextChat, hcheck>>

ScopeListChats(authorization) ==
    /\ SetStore(handle_list_chats(Store, authorization, now).store)
    /\ UNCHANGED <<now, nextToken, nextChat, hcheck>>

ScopeNext ==
    \/ \E h \in ScopeHeaders : ScopeCreateChat(h, <<"New Chat">>)
    \/ \E h \in ScopeHeaders, c \in ChatIds : ScopeDeleteChat(h, c)
    \/ \E h \in ScopeHeaders, c \in ChatIds : ScopeUpdateChatTitle(h, c, <<"My Chat">>)
    \/ \E h \in ScopeHeaders, c \in ChatIds : ScopeChat(h, c)
    \/ \E h \in ScopeHeaders : ScopeListChats(h)

ScopeSpec == ScopeInit /\ [][ScopeNext]_vars

\* the records of the users other than username are in S2 what they are
\* in S1, and no user is added or removed
OthersUntouched(S1, S2, username) ==
    /\ DOMAIN S2.users = DOMAIN S1.users
    /\ S2.keys = S1.keys
    /\ \A w \in DOMAIN S1.users \ {username} : S2.users[w] = S1.users[w]

\* C27: create_user_chat, update_chat_thread, update_chat_last_message,
\* update_chat_title and delete_user_chat called for one user leave the
\* record of every other user as it is, also of a user who has a chat with
\* the same chat_id; and a chat request changes nothing but the record of
\* the user its token validates to, and nothing at all without such a user.
C27_ScopedToUser ==
    /\ \A u \in ChatUsernames, c \in ChatIds :
          /\ OthersUntouched(Store, create_user_chat(Store, u, <<"New Chat">>, nextChat, now).store, u)
          /\ OthersUntouched(Store, update_chat_thread(Store, u, c, <<"thread_1">>).store, u)
          /\ OthersUntouched(Store, update_chat_last_message(Store, u, c, now).store, u)
          /\ OthersUntouched(Store, update_chat_title(Store, u, c, <<"My Chat">>).store, u)
          /\ OthersUntouched(Store, delete_user_chat(Store, u, c).store, u)
    /\ \A h \in ScopeHeaders, c \in ChatIds :
          LET a == get_current_user(Store, h, now)
              u == IF a.ret.status = 200 THEN a.ret.user.username ELSE "nobody"
              replies == {handle_create_chat(Store, h, <<"New Chat">>, nextChat, now),
                          handle_delete_chat(Store, h, c, now),
                          handle_update_chat_title(Store, h, c, <<"My Chat">>, now),
                          handle_chat_request(Store, h, <<"h", "i">>, c, now),
                          handle_list_chats(Store, h, now)}
          IN  \A r \in {[store |-> x.store, ret |-> x.ret] : x \in replies} :
                  /\ OthersUntouched(Store, r.store, u)
                  /\ a.ret.status # 200 => r = Reply(Store, a.ret)
                  /\ (r.ret.status = 200 /\ "chats" \in DOMAIN r.ret) =>
                        \A i \in DOMAIN r.ret.chats :
                            r.ret.chats[i].chat_id \in DOMAIN users[u]["chats"]

C27_Witness ==
    /\ DOMAIN users = {"alice", "bob"}
    /\ token_urlsafe("C", 1) \in DOMAIN users["bob"]["chats"]
    /\ users["bob"]["chats"][token_urlsafe("C", 1)]["title"] = <<"New Chat">>
    /\ users["bob"]["chats"][token_urlsafe("C", 1)]["message_count"] = 0
    /\ users["alice"]["chats"] = EmptyDict
    /\ nextChat = 2
    /\ handle_delete_chat(Store, <<"Bearer ">> \o SessionToken(1), token_urlsafe("C", 1), now).ret.status = 404

----------------------------------------------------------------------------
(* Sessions of deactivated accounts *)

\* a step that deactivates an account leaves every other field of its
\* record, the session fields among them, as it was
DeactivationKeepsSession ==
    \A u \in DOMAIN users :
        (/\ users[u]["is_active"] = TRUE
         /\ u \in DOMAIN users'
         /\ users'[u]["is_active"] = FALSE) =>
            /\ DOMAIN users'[u] = DOMAIN users[u]
            /\ \A f \in DOMAIN users[u] \ {"is_active"} : users'[u][f] = users[u][f]

\* what C28 says of one state, for deactivate_user called in it
C28_SurvivesState ==
    \A u \in DOMAIN users :
        LET d == deactivate_user(Store, u) IN
        /\ DOMAIN d.store.users[u] = DOMAIN users[u] \cup {"is_active"}
        /\ \A f \in DOMAIN users[u] \ {"is_active"} : d.store.users[u][f] = users[u][f]
        /\ d.store.users[u]["is_active"] = FALSE
        /\ \A k \in PresentedTokens, t \in AnyTime :
              validate_session(d.store, k, t).ret = validate_session(Store, k, t).ret
        /\ \A t \in AnyTime :
              (HasSession(users, u) /\ t < fromisoformat(users[u]["session_expires"])) =>
                  LET k == users[u]["session_token"]
                      h == <<"Bearer ">> \o k
                      c == handle_create_chat(d.store, h, <<"New Chat">>, nextChat, t)
                  IN  /\ validate_session(d.store, k, t).ret = Identity(u, users[u])
                      /\ c.ret.status = 200
                      /\ DOMAIN c.store.users[u]["chats"]
                             = DOMAIN users[u]["chats"] \cup {c.ret.chat.chat_id}
                      /\ handle_list_chats(c.store, h, t).ret.status = 200

\* C28: deactivate_user changes the is_active field of the named record
\* and nothing else: session_token and session_expires stay, so every token
\* validates after the deactivation as it did before it, and a token of the
\* deactivated user that has not expired still gives that user's identity
\* and still gets that user's chat requests answered.
C28_SessionSurvives == []C28_SurvivesState /\ [][DeactivationKeepsSession]_vars

C28_Witness ==
    \E u \in DOMAIN users :
        /\ users[u]["is_active"] = FALSE
        /\ HasSession(users, u)
        /\ now < fromisoformat(users[u]["session_expires"])
        /\ validate_session(Store, users[u]["session_token"], now).ret.username = u
        /\ authenticate_user(Store, u, Password0, now).ret = AccountDeactivated

----------------------------------------------------------------------------
(* Records without a session *)

\* what C30 says of one state: whatever is presented as the token, None
\* and the empty string included, an identity is returned only for a user
\* whose record holds that token; and create_user_session for an unknown
\* username changes nothing and returns a token that does not validate
C30_NoSessionState ==
    /\ \A k \in PresentedTokens, t \in AnyTime :
          LET v == validate_session(Store, k, t).ret IN
          v.found => /\ v.username \in DOMAIN users
                     /\ HasSession(users, v.username)
                     /\ users[v.username]["session_token"] = k
    /\ \A u \in DOMAIN users, k \in PresentedTokens, t \in AnyTime :
          ~HasSession(users, u) =>
              LET v == validate_session(Store, k, t).ret
              IN  v.found => v.username # u
    /\ \A u \in Unregistered, t \in AnyTime :
          LET c == create_user_session(Store, u, nextToken, now) IN
          /\ c.store = Store
          /\ \A w \in DOMAIN users : ~Holds(users, w, c.ret)
          /\ ~validate_session(c.store, c.ret, t).ret.found

\* C30: validate_session returns no identity for a user whose record holds
\* no session_token, whatever is presented; a token drawn for an unknown
\* username is on no record and validates in no later state: no step
\* stores a token drawn before it.
C30_NoSessionNoIdentity == []C30_NoSessionState /\ [][NoRevival]_vars

C30_Witness ==
    /\ DOMAIN users = {"alice"}
    /\ nextToken = MaxTokens + 1
    /\ users["alice"]["last_login"] # None
    /\ ~HasSession(users, "alice")
    /\ \A k \in PresentedTokens : ~validate_session(Store, k, now).ret.found

----------------------------------------------------------------------------
(* validate_session pass by pass.  get_current_user is a plain def, so     *)
(* its validate_session runs on a worker thread while the event loop runs  *)
(* the bodies of other requests; nothing synchronizes the two.  The for    *)
(* statement makes an iterator over self.users.items(), which remembers    *)
(* the size of the dict; each pass asks it for the next item, and the      *)
(* iterator raises RuntimeError (dictionary changed size during            *)
(* iteration) if a key was added since.  The for statement is outside the  *)
(* try block of the loop body, so the error leaves validate_session.       *)

\* one pass of the loop at the i-th key, for an iterator made when the dict
\* had used keys
scan_step(S, i, used, session_token, t) ==
    IF Len(S.keys) # used THEN [store |-> S, pc |-> "raised"]
    ELSE IF i > Len(S.keys) THEN [store |-> S, pc |-> "returned", ret |-> NoIdentity]
    ELSE LET username == S.keys[i]
             user_data == S.users[username]
             stored == Get(user_data, "session_expires", EmptyStr)
         IN  IF Get(user_data, "session_token", None) # session_token
             THEN [store |-> S, pc |-> "next"]
             ELSE IF ~IsoValid(stored)
             THEN [store |-> S, pc |-> "next"]      \* except: pass
             ELSE IF NotExpired(t, fromisoformat(stored))
             THEN [store |-> S, pc |-> "returned", ret |-> Identity(username, user_data)]
             ELSE [store |-> ExpireSession(S, username), pc |-> "next"]

\* alice and bob, each with a session; no request is in progress
ScanInit ==
    LET S1 == create_user_session(ChatStore0, "alice", 1, 0).store
        S2 == create_user_session(S1, "bob", 2, 0).store
    IN  /\ users = S2.users
        /\ keys = S2.keys
        /\ file = S2.file
        /\ now = 0
        /\ nextToken = 3
        /\ nextChat = 1
        /\ hcheck = [phase |-> "scan", pool |-> IdleThread]

\* the worker thread after a pass that gave s: at the next key, or done
\* with the answer of get_current_user, whose except clause turns the
\* RuntimeError, like the 401 raised for None, into 401 "Invalid session
\* token"
AfterPass(p, s) ==
    IF s.pc = "next" THEN [p EXCEPT !.pc = "scanning", !.i = p.i + 1]
    ELSE IF s.pc = "returned" /\ s.ret.found
    THEN [pc |-> "done", token |-> p.token, ret |-> [status |-> 200, user |-> s.ret]]
    ELSE [pc |-> "done", token |-> p.token,
          ret |-> Unauthorized("Invalid session token")]

\* get_current_user calls validate_session: the iterator is made and asked
\* for the first item in one go, and the first pass runs
ScanStart(session_token) ==
    /\ hcheck.pool.pc = "idle"
    /\ LET p == [pc |-> "idle", token |-> session_token, i |-> 1, used |-> Len(keys)]
           s == scan_step(Store, p.i, p.used, p.token, now)
       IN  /\ SetStore(s.store)
           /\ hcheck' = [hcheck EXCEPT !.pool = AfterPass(p, s)]
    /\ UNCHANGED <<now, nextToken, nextChat>>

\* one further pass of the loop
ScanStep ==
    /\ hcheck.pool.pc = "scanning"
    /\ LET s == scan_step(Store, hcheck.pool.i, hcheck.pool.used, hcheck.pool.token, now)
       IN  /\ SetStore(s.store)
           /\ hcheck' = [hcheck EXCEPT !.pool = AfterPass(hcheck.pool, s)]
    /\ UNCHANGED <<now, nextToken, nextChat>>

\* the register handler of another request, on the event loop
ScanRegister(username, email) ==
    /\ SetStore(register_user(Store, username, email, Password0, now).store)
    /\ UNCHANGED <<now, nextToken, nextChat, hcheck>>

ScanNext ==
    \/ \E k \in SessionTokens \cup {<<"x">>} : ScanStart(k)
    \/ ScanStep
    \/ \E x \in {<<"carol", <<"carol@x.com">>>>, <<"dave", <<"dave@x.com">>>>} :
          ScanRegister(x[1], x[2])
    \/ Tick

ScanSpec == ScanInit /\ [][ScanNext]_vars

\* C29: a validation that has finished, for a token that is on the record
\* of a user and has not expired, has returned that user's identity,
\* whatever other requests did to the store while it ran.
C29_ConcurrentValidation ==
    hcheck.pool.pc = "done" =>
        \A u \in DOMAIN users :
            (/\ Holds(users, u, hcheck.pool.token)
             /\ now < fromisoformat(users[u]["session_expires"])) =>
                /\ hcheck.pool.ret.status = 200
                /\ hcheck.pool.ret.user.username = u

====
